---- MODULE Spec2Model ----
(***************************************************************************)
(* A model of the realtime transcriber's core: the overlap context and     *)
(* text deduplication of TranscriberService (service.ts) and the speaker   *)
(* continuity tracker SpeakerIdentifier (speaker-identifier.ts).           *)
(*                                                                         *)
(* Conventions.                                                            *)
(*  - A nullable field (T | null) is an option: <<>> is null, <<x>> is x.  *)
(*  - A JavaScript string is a sequence of one-character strings, so that  *)
(*    trim, split, toLowerCase and replace are computed, not assumed.      *)
(*  - A Float32Array of audio is a sequence of runs [src, lo, hi]: the     *)
(*    samples lo..hi-1 of the audio of speech event number src. Samples of *)
(*    different events or positions are different symbols, so two buffers  *)
(*    hold the same samples iff their runs are equal. Lengths are real     *)
(*    sample counts (16 kHz).                                              *)
(*  - An embedding is a sequence of fixed-point numbers in units of 1e-4;  *)
(*    NaN stands for a non-finite component.                               *)
(***************************************************************************)
EXTENDS Integers, Sequences, FiniteSets, TLC

VARIABLES
    \* ---- TranscriberService fields (service.ts)
    config,              \* the loaded TranscriberConfig (the fields the core reads)
    running,
    audioCapture,        \* option of the generation that built the component
    vad,
    transcriber,
    fileWriter,
    speakerIdentifier,
    asrOverlapSamples,
    asrOverlapMaxGapMs,
    previousSpeechTail,  \* option of a buffer
    lastSpeechEndMs,     \* option of a time in ms
    previousTranscript,  \* a string
    \* ---- the service's environment
    startPc,             \* "idle" | "awaitInit": a start() suspended at await vad.init()
    nextGen,             \* number of start() calls that built components so far
    handlerVads,         \* generations whose VAD has the speech handler attached
    now,                 \* wall clock (ms) at the end of the last speech span
    nEvents,             \* speech events emitted so far
    records,             \* the lines the sink has written, in order
    lastHandled,         \* what the last speech handler call did
    componentOps,        \* the constructions and calls made on the components, in order
    lastCall,            \* what the last start() or stop() call did
    lastAudio,           \* what the last capture "audio" handler call did
    suspended,           \* the calls suspended at an await, when calls overlap
    \* ---- SpeakerIdentifier fields (speaker-identifier.ts) and its store file
    tracker,
    storeFile,
    tmpFile,             \* option of what the file at storagePath + ".tmp" holds
    lastIdentify,        \* what the last identify() call did
    nCalls,              \* identify()/reset() calls made so far
    \* ---- a call of a pure function: arguments, result
    pureCall

svcVars == <<config, running, audioCapture, vad, transcriber, fileWriter,
             speakerIdentifier, asrOverlapSamples, asrOverlapMaxGapMs,
             previousSpeechTail, lastSpeechEndMs, previousTranscript>>
lifeVars == <<componentOps, lastCall, lastAudio, suspended>>
envVars == <<startPc, nextGen, handlerVads, now, nEvents, records, lastHandled, lifeVars>>
trkVars == <<tracker, storeFile, tmpFile, lastIdentify, nCalls>>
vars == <<svcVars, envVars, trkVars, pureCall>>

----------------------------------------------------------------------------
(* Options and small helpers *)

None == <<>>
Some(x) == <<x>>
IsNull(o) == o = <<>>
OrElse(o, d) == IF o = <<>> THEN d ELSE o[1]

Min(a, b) == IF a <= b THEN a ELSE b
Max(a, b) == IF a >= b THEN a ELSE b

----------------------------------------------------------------------------
(* Strings: trim, split(/\s+/).filter(Boolean), normalizeToken, join *)

IsSpace(c) == c = " "

\* toLowerCase on the model's alphabet
toLowerCase(c) == IF c = "A" THEN "a" ELSE IF c = "B" THEN "b" ELSE c

\* \p{L} or \p{N}: a letter or a digit
IsLetterOrDigit(c) == c \in {"a", "b", "A", "B", "1"}

RECURSIVE trimStart(_)
trimStart(s) ==
    IF s # <<>> /\ IsSpace(Head(s)) THEN trimStart(Tail(s)) ELSE s

RECURSIVE trimEnd(_)
trimEnd(s) ==
    IF s # <<>> /\ IsSpace(s[Len(s)]) THEN trimEnd(SubSeq(s, 1, Len(s) - 1)) ELSE s

trim(s) == trimEnd(trimStart(s))

\* s.split(/\s+/): cut at every maximal run of whitespace. cur is the piece being
\* read and inWs says the previous character was whitespace.
RECURSIVE splitFrom(_, _, _)
splitFrom(s, cur, inWs) ==
    IF s = <<>> THEN <<cur>>
    ELSE IF IsSpace(Head(s))
         THEN IF inWs THEN splitFrom(Tail(s), cur, TRUE)
                      ELSE <<cur>> \o splitFrom(Tail(s), <<>>, TRUE)
         ELSE splitFrom(Tail(s), Append(cur, Head(s)), FALSE)

splitWhitespace(s) == splitFrom(s, <<>>, FALSE)

\* .filter(Boolean): drop the empty strings
filterNonEmpty(ts) == SelectSeq(ts, LAMBDA t : t # <<>>)

tokenize(s) == filterNonEmpty(splitWhitespace(trim(s)))

normalizeToken(token) ==
    SelectSeq([i \in 1..Len(token) |-> toLowerCase(token[i])], IsLetterOrDigit)

RECURSIVE join(_)
join(ts) ==
    IF ts = <<>> THEN <<>>
    ELSE IF Len(ts) = 1 THEN ts[1]
    ELSE ts[1] \o <<" ">> \o join(Tail(ts))

MAX_OVERLAP_TOKENS == 12

\* a variant of windowMatches that lets empty normalized tokens match each other
windowMatchesAllowEmpty(prevNorm, currNorm, overlapSize) ==
    \A i \in 0..(overlapSize - 1) :
        prevNorm[Len(prevNorm) - overlapSize + i + 1] = currNorm[i + 1]

\* the inner for loop: do the last overlapSize tokens of prev match the first of curr
windowMatches(prevNorm, currNorm, overlapSize) ==
    \A i \in 0..(overlapSize - 1) :
        LET prev == prevNorm[Len(prevNorm) - overlapSize + i + 1]
            curr == currNorm[i + 1]
        IN ~(prev = <<>> \/ curr = <<>> \/ prev # curr)

\* the outer for loop, from overlapSize down to 1; 0 when no window matches
RECURSIVE firstMatchingOverlap(_, _, _)
firstMatchingOverlap(prevNorm, currNorm, overlapSize) ==
    IF overlapSize < 1 THEN 0
    ELSE IF windowMatches(prevNorm, currNorm, overlapSize) THEN overlapSize
    ELSE firstMatchingOverlap(prevNorm, currNorm, overlapSize - 1)

\* a variant of dedupeOverlapText that never strips the last token of the text
dedupeOverlapTextKeepOne(previousText, currentText) ==
    LET prevTokens == tokenize(previousText)
        currTokens == tokenize(currentText)
    IN IF Len(prevTokens) = 0 \/ Len(currTokens) = 0 THEN trim(currentText)
       ELSE LET prevNorm == [i \in 1..Len(prevTokens) |-> normalizeToken(prevTokens[i])]
                currNorm == [i \in 1..Len(currTokens) |-> normalizeToken(currTokens[i])]
                maxOverlap == Min(Min(Len(prevNorm), Len(currNorm) - 1), MAX_OVERLAP_TOKENS)
                k == firstMatchingOverlap(prevNorm, currNorm, maxOverlap)
            IN IF k >= 1
               THEN trim(join(SubSeq(currTokens, k + 1, Len(currTokens))))
               ELSE trim(currentText)

dedupeOverlapText(previousText, currentText) ==
    LET prevTokens == tokenize(previousText)
        currTokens == tokenize(currentText)
    IN IF Len(prevTokens) = 0 \/ Len(currTokens) = 0 THEN trim(currentText)
       ELSE LET prevNorm == [i \in 1..Len(prevTokens) |-> normalizeToken(prevTokens[i])]
                currNorm == [i \in 1..Len(currTokens) |-> normalizeToken(currTokens[i])]
                maxOverlap == Min(Min(Len(prevNorm), Len(currNorm)), MAX_OVERLAP_TOKENS)
                k == firstMatchingOverlap(prevNorm, currNorm, maxOverlap)
            IN IF k >= 1
               THEN trim(join(SubSeq(currTokens, k + 1, Len(currTokens))))
               ELSE trim(currentText)

----------------------------------------------------------------------------
(* Audio buffers *)

SEGMENT_SAMPLE_RATE == 16000

\* the audio of speech event number n, len samples long
EventAudio(n, len) == IF len = 0 THEN <<>> ELSE <<[src |-> n, lo |-> 0, hi |-> len]>>

RECURSIVE bufLen(_)
bufLen(b) == IF b = <<>> THEN 0 ELSE (b[1].hi - b[1].lo) + bufLen(Tail(b))

\* join runs that continue each other, so that equal samples give equal buffers
RECURSIVE canon(_)
canon(b) ==
    IF Len(b) <= 1 THEN b
    ELSE IF b[1].src = b[2].src /\ b[1].hi = b[2].lo
         THEN canon(<<[b[1] EXCEPT !.hi = b[2].hi]>> \o SubSeq(b, 3, Len(b)))
         ELSE <<b[1]>> \o canon(Tail(b))

\* Float32Array.prototype.slice(start), 0 <= start
RECURSIVE slice(_, _)
slice(b, start) ==
    IF b = <<>> THEN <<>>
    ELSE LET n == b[1].hi - b[1].lo
         IN IF start >= n THEN slice(Tail(b), start - n)
            ELSE IF start = 0 THEN b
            ELSE <<[b[1] EXCEPT !.lo = b[1].lo + start]>> \o Tail(b)

concatAudio(a, b) == canon(a \o b)

----------------------------------------------------------------------------
(* SpeakerIdentifier: constants and pure helpers *)

MIN_RELIABLE_SPEAKER_SAMPLES == 1600
MAX_EMBEDDING_COUNT_FOR_AVG == 20
STRICT_VERIFY_MIN_KNOWN_SPEAKERS == 2

\* durations and thresholds are compared in hundredths
STRICT_VERIFY_MIN_DURATION_CS == 90
STRICT_VERIFY_MIN_SHORT_DURATION_CS == 45

\* a non-finite Float32 (NaN, +-Infinity)
NaN == 1000000000
isFinite(x) == x # NaN

RECURSIVE sumSq(_)
sumSq(v) == IF v = <<>> THEN 0 ELSE v[1] * v[1] + sumSq(Tail(v))

\* a variant of isValidEmbedding that accepts a squared norm of exactly 1e-8
isValidEmbeddingInclusive(v) ==
    /\ \A i \in 1..Len(v) : isFinite(v[i])
    /\ sumSq(v) >= 1

\* normSq > 1e-8, with components in units of 1e-4
isValidEmbedding(v) ==
    /\ \A i \in 1..Len(v) : isFinite(v[i])
    /\ sumSq(v) > 1

\* a variant of blendEmbeddings whose weight is not capped
blendEmbeddingsUncapped(previous, next, previousCount) ==
    LET count == Max(1, previousCount)
        total == count + 1
    IN [i \in 1..Len(previous) |->
          IF isFinite(previous[i]) /\ isFinite(next[i])
          THEN (previous[i] * count + next[i]) \div total
          ELSE NaN]

blendEmbeddings(previous, next, previousCount) ==
    LET count == Max(1, Min(previousCount, MAX_EMBEDDING_COUNT_FOR_AVG))
        total == count + 1
    IN [i \in 1..Len(previous) |->
          IF isFinite(previous[i]) /\ isFinite(next[i])
          THEN (previous[i] * count + next[i]) \div total
          ELSE NaN]

\* a variant of getStrictThreshold without the ceiling
getStrictThresholdNoCeiling(baseThreshold, durationCs) ==
    IF durationCs >= 120 THEN Max(baseThreshold + 14, 50)
    ELSE IF durationCs >= 60 THEN Max(baseThreshold + 10, 42)
    ELSE Max(baseThreshold + 6, 36)

\* thresholds in hundredths, the duration in hundredths of a second
getStrictThreshold(baseThreshold, durationCs) ==
    IF durationCs >= 120 THEN Min(95, Max(baseThreshold + 14, 50))
    ELSE IF durationCs >= 60 THEN Min(95, Max(baseThreshold + 10, 42))
    ELSE Min(95, Max(baseThreshold + 6, 36))

SpeakerName(n) == "Speaker_" \o ToString(n)

(* A JavaScript Map, in insertion order: a sequence of [k, v] *)
mapHas(m, k) == \E i \in 1..Len(m) : m[i].k = k
mapGet(m, k) == m[CHOOSE i \in 1..Len(m) : m[i].k = k].v
mapSet(m, k, v) ==
    IF mapHas(m, k)
    THEN [i \in 1..Len(m) |-> IF m[i].k = k THEN [k |-> k, v |-> v] ELSE m[i]]
    ELSE Append(m, [k |-> k, v |-> v])
mapDelete(m, k) == SelectSeq(m, LAMBDA e : e.k # k)
mapKeys(m) == {m[i].k : i \in 1..Len(m)}

(* The external matcher (SpeakerEmbeddingManager): a name is enrolled once *)
managerAdd(mgr, name, v) == IF mapHas(mgr, name) THEN mgr ELSE mapSet(mgr, name, v)
managerRemove(mgr, name) == mapDelete(mgr, name)

----------------------------------------------------------------------------
(* SpeakerIdentifier: the persisted store, load and save *)

\* The file at storagePath: kind is "missing" (no file), "corrupt" (JSON.parse
\* throws), "badShape" (parses, but speakers is not iterable) or "json".
\* speakers is the JSON array, each entry [name, embedding, count], the count
\* an option (an older store has none).
StoreMissing == [kind |-> "missing", speakerCount |-> 0, speakers |-> <<>>]
StoreJson(n, sp) == [kind |-> "json", speakerCount |-> n, speakers |-> sp]

\* the fields of a SpeakerIdentifier as its constructor leaves them before load()
NewTracker(threshold, hasStoragePath, caps) ==
    [speakerCount |-> 0,
     embeddings |-> <<>>,
     embeddingCounts |-> <<>>,
     lastSpeaker |-> None,
     manager |-> <<>>,
     managerVerify |-> caps.verify,
     managerRemove |-> caps.remove,
     sampleRate |-> SEGMENT_SAMPLE_RATE,
     threshold |-> threshold,
     storagePath |-> hasStoragePath]

\* a variant of load()'s for loop that gives up at the first invalid embedding
RECURSIVE loadSpeakersUntilInvalid(_, _)
loadSpeakersUntilInvalid(t, speakers) ==
    IF speakers = <<>> THEN t
    ELSE LET entry == Head(speakers)
             v == entry.embedding
         IN IF ~isValidEmbedding(v) THEN t
            ELSE loadSpeakersUntilInvalid(
                   [t EXCEPT !.manager = managerAdd(@, entry.name, v),
                             !.embeddings = mapSet(@, entry.name, v),
                             !.embeddingCounts =
                                 mapSet(@, entry.name, Max(1, OrElse(entry.count, 1)))],
                   Tail(speakers))

\* the body of load()'s for loop, entry by entry
RECURSIVE loadSpeakers(_, _)
loadSpeakers(t, speakers) ==
    IF speakers = <<>> THEN t
    ELSE LET entry == Head(speakers)
             v == entry.embedding
         IN IF ~isValidEmbedding(v) THEN loadSpeakers(t, Tail(speakers))
            ELSE loadSpeakers(
                   [t EXCEPT !.manager = managerAdd(@, entry.name, v),
                             !.embeddings = mapSet(@, entry.name, v),
                             !.embeddingCounts =
                                 mapSet(@, entry.name, Max(1, OrElse(entry.count, 1)))],
                   Tail(speakers))

load(t, store) ==
    IF ~t.storagePath \/ store.kind = "missing" THEN t
    ELSE IF store.kind \in {"corrupt", "partial"} THEN t
    ELSE IF store.kind = "badShape" THEN [t EXCEPT !.speakerCount = store.speakerCount]
    ELSE LET t1 == loadSpeakers([t EXCEPT !.speakerCount = store.speakerCount],
                                store.speakers)
             latestName == SpeakerName(t1.speakerCount)
         IN IF mapHas(t1.embeddings, latestName)
            THEN [t1 EXCEPT !.lastSpeaker = Some(latestName)]
            ELSE t1

Construct(threshold, hasStoragePath, caps, store) ==
    load(NewTracker(threshold, hasStoragePath, caps), store)

\* the snapshot save() serialises
Snapshot(t) ==
    StoreJson(t.speakerCount,
              [i \in 1..Len(t.embeddings) |->
                 LET name == t.embeddings[i].k
                 IN [name |-> name,
                     embedding |-> t.embeddings[i].v,
                     count |-> Some(IF mapHas(t.embeddingCounts, name)
                                    THEN mapGet(t.embeddingCounts, name) ELSE 1)]])

\* save(): the store file afterwards. writeOk is whether mkdir, write and rename
\* all succeeded; a failure is caught and leaves the file as it was.
save(t, store, writeOk) ==
    IF ~t.storagePath THEN store
    ELSE IF writeOk THEN Snapshot(t)
    ELSE store

\* a temp file that writeFileSync left unfinished
PartialFile == [kind |-> "partial", speakerCount |-> 0, speakers |-> <<>>]

\* What the file system does in one save(): failAt is the operation that raises
\* ("none", "mkdir", "write" or "rename"), partial whether a failing write left
\* an unfinished temp file, unlinkOk whether the catch block's unlinkSync works.
FsOk == [failAt |-> "none", partial |-> FALSE, unlinkOk |-> TRUE]

\* a variant of saveTmp whose catch block does not remove the temp file
saveTmpNoCleanup(t, tmp, fs) ==
    IF ~t.storagePath THEN tmp
    ELSE IF fs.failAt = "none" THEN None
    ELSE IF fs.failAt = "rename" THEN Some(Snapshot(t))
    ELSE IF fs.failAt = "write" /\ fs.partial THEN Some(PartialFile)
    ELSE tmp

\* save(): the temp file afterwards
saveTmp(t, tmp, fs) ==
    IF ~t.storagePath THEN tmp
    ELSE IF fs.failAt = "none" THEN None
    ELSE LET reached == IF fs.failAt = "rename" THEN Some(Snapshot(t))
                        ELSE IF fs.failAt = "write" /\ fs.partial THEN Some(PartialFile)
                        ELSE tmp
         IN IF ~IsNull(reached) /\ fs.unlinkOk THEN None ELSE reached

(* save() operation by operation, on files = [store, tmp]: what is at
   storagePath and at storagePath + ".tmp" *)

\* a variant of fsWriteBegin that opens the file at storagePath itself
fsWriteBeginInPlace(files) == [files EXCEPT !.store = PartialFile]

\* writeFileSync(tmpPath, ...) has opened the temp file and not yet finished
fsWriteBegin(files) == [files EXCEPT !.tmp = Some(PartialFile)]

\* writeFileSync(tmpPath, JSON.stringify(data)) has returned
fsWriteEnd(files, data) == [files EXCEPT !.tmp = Some(data)]

\* renameSync(tmpPath, storagePath)
fsRename(files) ==
    IF IsNull(files.tmp) THEN files ELSE [store |-> files.tmp[1], tmp |-> None]

\* unlinkSync(tmpPath)
fsUnlink(files) == [files EXCEPT !.tmp = None]

----------------------------------------------------------------------------
(* SpeakerIdentifier: identify and reset. Each returns the new fields (t), *)
(* the new store file (store) and what the caller gets.                    *)

\* a variant of createNewSpeaker that does not advance speakerCount
createNewSpeakerSameCount(t, store, embedding, writeOk) ==
    LET newName == SpeakerName(t.speakerCount + 1)
        t1 == [t EXCEPT !.manager = managerAdd(@, newName, embedding),
                        !.embeddings = mapSet(@, newName, embedding),
                        !.embeddingCounts = mapSet(@, newName, 1),
                        !.lastSpeaker = Some(newName)]
    IN [t |-> t1, store |-> save(t1, store, writeOk), saved |-> TRUE, ret |-> newName]

createNewSpeaker(t, store, embedding, writeOk) ==
    LET n == t.speakerCount + 1
        newName == SpeakerName(n)
        t1 == [t EXCEPT !.speakerCount = n,
                        !.manager = managerAdd(@, newName, embedding),
                        !.embeddings = mapSet(@, newName, embedding),
                        !.embeddingCounts = mapSet(@, newName, 1),
                        !.lastSpeaker = Some(newName)]
    IN [t |-> t1, store |-> save(t1, store, writeOk), saved |-> TRUE, ret |-> newName]

updateSpeakerEmbedding(t, store, name, currentEmbedding, writeOk) ==
    IF ~mapHas(t.embeddings, name)
    THEN [t |-> [t EXCEPT !.embeddings = mapSet(@, name, currentEmbedding),
                          !.embeddingCounts = mapSet(@, name, 1)],
          store |-> store, saved |-> FALSE]
    ELSE LET previousEmbedding == mapGet(t.embeddings, name)
             previousCount == IF mapHas(t.embeddingCounts, name)
                              THEN mapGet(t.embeddingCounts, name) ELSE 1
             updated == blendEmbeddings(previousEmbedding, currentEmbedding, previousCount)
         IN IF ~isValidEmbedding(updated) THEN [t |-> t, store |-> store, saved |-> FALSE]
            ELSE LET t1 == [t EXCEPT
                              !.embeddings = mapSet(@, name, updated),
                              !.embeddingCounts = mapSet(@, name, previousCount + 1),
                              !.manager = IF t.managerRemove
                                          THEN managerAdd(managerRemove(@, name), name, updated)
                                          ELSE @]
                 IN [t |-> t1, store |-> save(t1, store, writeOk), saved |-> TRUE]

\* a variant of canStrictVerify that does not look at the last speaker
canStrictVerifyAnySpeaker(t, name, durationCs) ==
    LET shouldStrictByDuration == durationCs >= STRICT_VERIFY_MIN_DURATION_CS
        shouldStrictBySpeakerCount ==
            /\ Len(t.embeddings) >= STRICT_VERIFY_MIN_KNOWN_SPEAKERS
            /\ durationCs >= STRICT_VERIFY_MIN_SHORT_DURATION_CS
    IN t.managerVerify /\ (shouldStrictByDuration \/ shouldStrictBySpeakerCount)

\* whether identify runs manager.verify for the candidate name
canStrictVerify(t, name, durationCs) ==
    LET shouldStrictByDuration == durationCs >= STRICT_VERIFY_MIN_DURATION_CS
        shouldStrictBySpeakerCount ==
            /\ Len(t.embeddings) >= STRICT_VERIFY_MIN_KNOWN_SPEAKERS
            /\ durationCs >= STRICT_VERIFY_MIN_SHORT_DURATION_CS
            /\ Some(name) # t.lastSpeaker
    IN t.managerVerify /\ (shouldStrictByDuration \/ shouldStrictBySpeakerCount)

\* What the collaborators do in one identify call:
\*   throws      the extractor raises (createStream, acceptWaveform, isReady, compute)
\*   ready       extractor.isReady(stream)
\*   embedding   extractor.compute(stream)
\*   found       manager.search: an enrolled name, or "" for no match
\*   strictMatch manager.verify
\*   writeOk     the store write succeeds
\* path names the return statement reached.
\* identify from "const stream = this.extractor.createStream()" on
identifyReliable(t, store, audioLen, e) ==
    LET fallback(p) == [t |-> t, store |-> store, saved |-> FALSE, threw |-> FALSE,
                        path |-> p, verify |-> None,
                        ret |-> OrElse(t.lastSpeaker, "Unknown")]
    IN IF e.throws
       THEN [t |-> t, store |-> store, saved |-> FALSE, threw |-> TRUE,
             path |-> "threw", verify |-> None, ret |-> ""]
       ELSE IF ~e.ready THEN fallback("notReady")
       ELSE IF ~isValidEmbedding(e.embedding) THEN fallback("invalid")
       ELSE LET name == e.found
                durationCs == (audioLen * 100) \div t.sampleRate
                strict == name # "" /\ canStrictVerify(t, name, durationCs)
                verify == IF strict
                          THEN Some([name |-> name,
                                     threshold |-> getStrictThreshold(t.threshold, durationCs)])
                          ELSE None
            IN IF name # ""
               THEN IF strict /\ ~e.strictMatch
                    THEN LET r == createNewSpeaker(t, store, e.embedding, e.writeOk)
                         IN [t |-> r.t, store |-> r.store, saved |-> r.saved,
                             threw |-> FALSE,
                             path |-> "rejected", verify |-> verify, ret |-> r.ret]
                    ELSE LET r == updateSpeakerEmbedding(t, store, name, e.embedding, e.writeOk)
                         IN [t |-> [r.t EXCEPT !.lastSpeaker = Some(name)],
                             store |-> r.store, saved |-> r.saved, threw |-> FALSE,
                             path |-> "matched", verify |-> verify, ret |-> name]
               ELSE LET r == createNewSpeaker(t, store, e.embedding, e.writeOk)
                    IN [t |-> r.t, store |-> r.store, saved |-> r.saved, threw |-> FALSE,
                        path |-> "new", verify |-> None, ret |-> r.ret]

\* a variant of identify without the check of the audio's length
identifyAnyLength(t, store, audioLen, e) == identifyReliable(t, store, audioLen, e)

identify(t, store, audioLen, e) ==
    IF audioLen < MIN_RELIABLE_SPEAKER_SAMPLES
    THEN [t |-> t, store |-> store, saved |-> FALSE, threw |-> FALSE, path |-> "short",
          verify |-> None, ret |-> OrElse(t.lastSpeaker, "Unknown")]
    ELSE identifyReliable(t, store, audioLen, e)

\* a variant of reset that keeps the last-assigned speaker
resetKeepLastSpeaker(t, store, writeOk) ==
    LET t1 == [t EXCEPT !.manager = <<>>,
                        !.speakerCount = 0,
                        !.embeddings = <<>>,
                        !.embeddingCounts = <<>>]
    IN [t |-> t1, store |-> save(t1, store, writeOk), saved |-> TRUE]

\* a variant of reset that keeps speakerCount
resetKeepCount(t, store, writeOk) ==
    LET t1 == [t EXCEPT !.manager = <<>>,
                        !.embeddings = <<>>,
                        !.embeddingCounts = <<>>,
                        !.lastSpeaker = None]
    IN [t |-> t1, store |-> save(t1, store, writeOk), saved |-> TRUE]

reset(t, store, writeOk) ==
    LET t1 == [t EXCEPT !.manager = <<>>,
                        !.speakerCount = 0,
                        !.embeddings = <<>>,
                        !.embeddingCounts = <<>>,
                        !.lastSpeaker = None]
    IN [t |-> t1, store |-> save(t1, store, writeOk), saved |-> TRUE]

----------------------------------------------------------------------------
(* Bounds and the inputs the environment draws from *)

MaxEvents == 2      \* speech events per behaviour
MaxCalls == 2       \* direct identify()/reset() calls per behaviour
MaxFreshCalls == 3  \* the same, on a tracker that starts without a store
MaxStarts == 2      \* start() calls that build components
MaxTextLen == 3     \* length of the exhaustively enumerated strings

\* audio lengths in samples: below MIN_RELIABLE_SPEAKER_SAMPLES, and 0.125 s,
\* 0.5 s and 1 s of speech
AudioLens == {320, 2000, 8000, 16000}

\* the lengths of the audio of a speech event: 20 ms and 0.5 s
SpeechLens == {320, 8000}

\* wall-clock distance (ms) from the end of one speech span to the start of the
\* next: asrOverlapMaxGapMs and one more
Gaps == {600, 601}

\* what the transcription engine may return
RawTexts == { <<>>, <<" ", " ">>, <<"a">>, <<"a", " ", "b">>,
              <<"b", " ", "A", "!">> }

AsrOutcomes == {[threw |-> TRUE, text |-> <<>>]}
               \cup {[threw |-> FALSE, text |-> x] : x \in RawTexts}

EmbA == <<6000, 8000>>
EmbB == <<-8000, 6000>>
EmbNegA == <<-6000, -8000>>
EmbTiny == <<1, 0>>
EmbNaN == <<NaN, 6000>>
Embeddings == {EmbA, EmbB, EmbNegA, EmbTiny, EmbNaN}

\* no collaborator is reached, or the first one reached answers "not ready"
QuietEnv == [throws |-> FALSE, ready |-> FALSE, embedding |-> <<>>, found |-> "",
             strictMatch |-> FALSE, writeOk |-> TRUE, fs |-> FsOk]

\* what the file system does in the save() calls drawn: all works; mkdir raises;
\* the write raises, leaves an unfinished temp file and unlink fails too; the
\* rename raises (the store path is a directory) and unlink works
FsOutcomes ==
    { FsOk,
      [failAt |-> "mkdir", partial |-> FALSE, unlinkOk |-> TRUE],
      [failAt |-> "write", partial |-> TRUE, unlinkOk |-> FALSE],
      [failAt |-> "rename", partial |-> FALSE, unlinkOk |-> TRUE] }

\* The collaborators' behaviours in one identify call on tracker t with audioLen
\* samples. Choices the call does not reach (after a raise, a not-ready answer, an
\* invalid embedding, or for short audio) are fixed, so no behaviour is drawn twice.
IdentifyEnvs(t, audioLen) ==
    IF audioLen < MIN_RELIABLE_SPEAKER_SAMPLES
    THEN {[QuietEnv EXCEPT !.ready = TRUE, !.embedding = EmbA]}
    ELSE {[QuietEnv EXCEPT !.throws = TRUE], QuietEnv}
         \cup {[QuietEnv EXCEPT !.ready = TRUE, !.embedding = v] :
                  v \in {w \in Embeddings : ~isValidEmbedding(w)}}
         \cup {e \in {[throws |-> FALSE, ready |-> TRUE, embedding |-> w, found |-> name,
                         strictMatch |-> m, writeOk |-> f.failAt = "none", fs |-> f] :
                          w \in {x \in Embeddings : isValidEmbedding(x)},
                          name \in mapKeys(t.manager) \cup {""},
                          m \in BOOLEAN, f \in FsOutcomes} :
                  LET r == identify(t, StoreMissing, audioLen, e)
                  IN /\ (IsNull(r.verify) => ~e.strictMatch)
                     /\ (~(r.saved /\ t.storagePath) => e.fs = FsOk)}

\* the behaviours drawn for an identify call the speech handler makes
HandlerIdentifyEnvs(t, audioLen) ==
    {e \in IdentifyEnvs(t, audioLen) : e.embedding \in {<<>>, EmbA} /\ e.writeOk}

\* the external matcher's optional capabilities: sherpa-onnx offers verify and
\* remove, a minimal matcher offers neither
SherpaCaps == [verify |-> TRUE, remove |-> TRUE]
MatcherCaps == {SherpaCaps, [verify |-> FALSE, remove |-> FALSE]}

Entry(n, v, c) == [name |-> SpeakerName(n), embedding |-> v, count |-> c]

\* store files a tracker may be constructed on
InitStores ==
    { StoreMissing,
      [kind |-> "corrupt", speakerCount |-> 0, speakers |-> <<>>],
      [kind |-> "badShape", speakerCount |-> 2, speakers |-> <<>>],
      StoreJson(0, <<>>),
      StoreJson(1, <<Entry(1, EmbA, Some(1))>>),
      StoreJson(2, <<Entry(1, EmbA, Some(20)), Entry(2, EmbB, None)>>),
      StoreJson(1, <<Entry(1, EmbNaN, Some(1))>>),
      StoreJson(0, <<Entry(1, EmbA, Some(1))>>) }

Configs == [asrOverlapMs : {0, 300}, asrOverlapMaxGapMs : {600}, speakerThreshold : {40}]

NoEvent == [id |-> 0, audio |-> <<>>, startTime |-> 0, durationMs |-> 0]

NotHandled ==
    [event |-> NoEvent, run |-> 0, prevEvent |-> NoEvent, prevRun |-> 0,
     prevAsrThrew |-> FALSE, prevText |-> <<>>,
     audioForAsr |-> <<>>, usedOverlap |-> FALSE, asrThrew |-> FALSE,
     rawText |-> <<>>, text |-> <<>>, identifyCalled |-> FALSE,
     identifyThrew |-> FALSE, writeCalled |-> FALSE, writeThrew |-> FALSE,
     escapes |-> FALSE]

NotIdentified ==
    [call |-> 0, op |-> "none", audioLen |-> 0, path |-> "none", ret |-> "",
     threw |-> FALSE, verify |-> None, ready |-> FALSE, embedding |-> <<>>,
     found |-> "", strictMatch |-> FALSE, writeOk |-> TRUE, fs |-> FsOk,
     saved |-> FALSE, writesOk |-> TRUE, prevPath |-> "none"]

----------------------------------------------------------------------------
(* TranscriberService: the speech handler's pieces *)

\* a variant of prepareAudioForAsr that drops the overlap at a gap of exactly
\* asrOverlapMaxGapMs
prepareAudioForAsrExclusiveGap(audio, startTime) ==
    IF IsNull(previousSpeechTail) \/ IsNull(lastSpeechEndMs) \/ asrOverlapSamples <= 0
    THEN [audioForAsr |-> audio, usedOverlap |-> FALSE]
    ELSE IF startTime - lastSpeechEndMs[1] >= asrOverlapMaxGapMs
         THEN [audioForAsr |-> audio, usedOverlap |-> FALSE]
         ELSE [audioForAsr |-> concatAudio(previousSpeechTail[1], audio),
               usedOverlap |-> TRUE]

\* a variant of prepareAudioForAsr that does not look at the gap
prepareAudioForAsrAnyGap(audio, startTime) ==
    IF IsNull(previousSpeechTail) \/ IsNull(lastSpeechEndMs) \/ asrOverlapSamples <= 0
    THEN [audioForAsr |-> audio, usedOverlap |-> FALSE]
    ELSE [audioForAsr |-> concatAudio(previousSpeechTail[1], audio),
          usedOverlap |-> TRUE]

prepareAudioForAsr(audio, startTime) ==
    IF IsNull(previousSpeechTail) \/ IsNull(lastSpeechEndMs) \/ asrOverlapSamples <= 0
    THEN [audioForAsr |-> audio, usedOverlap |-> FALSE]
    ELSE LET gapMs == startTime - lastSpeechEndMs[1]
         IN IF gapMs > asrOverlapMaxGapMs
            THEN [audioForAsr |-> audio, usedOverlap |-> FALSE]
            ELSE [audioForAsr |-> concatAudio(previousSpeechTail[1], audio),
                  usedOverlap |-> TRUE]

\* a variant of updateSpeechContext that keeps its context when it already has one
updateSpeechContextKeepFirst(audio, startTime, durationMs) ==
    IF ~IsNull(lastSpeechEndMs)
    THEN [previousSpeechTail |-> previousSpeechTail, lastSpeechEndMs |-> lastSpeechEndMs]
    ELSE [previousSpeechTail |->
             IF asrOverlapSamples <= 0 THEN None
             ELSE Some(slice(audio, Max(0, bufLen(audio) - asrOverlapSamples))),
          lastSpeechEndMs |-> Some(startTime + durationMs)]

\* the new [previousSpeechTail, lastSpeechEndMs]
updateSpeechContext(audio, startTime, durationMs) ==
    [previousSpeechTail |->
        IF asrOverlapSamples <= 0 THEN None
        ELSE LET overlapStart == Max(0, bufLen(audio) - asrOverlapSamples)
             IN Some(slice(audio, overlapStart)),
     lastSpeechEndMs |-> Some(startTime + durationMs)]

\* const text = usedOverlap ? dedupeOverlapText(previousTranscript, rawText) : rawText.trim()
segmentText(usedOverlap, rawText) ==
    IF usedOverlap THEN dedupeOverlapText(previousTranscript, rawText) ELSE trim(rawText)

\* a variant of emitsRecord that lets an empty text through
emitsRecordAlways(text) == TRUE

\* if (text.length > 0)
emitsRecord(text) == Len(text) > 0

\* a variant of escapesHandler without the try/catch
escapesHandlerUncaught(threw) == threw

\* the handler's try/catch: does an exception raised in its body reach the emitter
escapesHandler(threw) == FALSE

\* Math.round(event.duration * 100) / 100, in hundredths of a second
roundDuration(durationMs) == (durationMs + 5) \div 10

----------------------------------------------------------------------------
(* Initial states *)

\* a TranscriberService after its constructor: config loaded, nothing started
\* no start() or stop() call yet; no audio chunk yet
NoCall == [op |-> "none", outcome |-> "none", error |-> "none", threw |-> {}]
NoAudio == [capture |-> 0, forwarded |-> FALSE, vad |-> None]

InitService ==
    /\ config \in Configs
    /\ running = FALSE
    /\ audioCapture = None /\ vad = None /\ transcriber = None
    /\ fileWriter = None /\ speakerIdentifier = None
    /\ asrOverlapSamples = 0 /\ asrOverlapMaxGapMs = 0
    /\ previousSpeechTail = None /\ lastSpeechEndMs = None
    /\ previousTranscript = <<>>
    /\ startPc = "idle" /\ nextGen = 0 /\ handlerVads = {}
    /\ now = 0 /\ nEvents = 0 /\ records = <<>>
    /\ lastHandled = NotHandled
    /\ componentOps = <<>> /\ lastCall = NoCall /\ lastAudio = NoAudio
    /\ suspended = {}

InitPure == pureCall = [fn |-> "none"]

\* the service with the speakers.json its output directory holds
Init ==
    /\ InitService
    /\ storeFile = StoreMissing
    /\ tmpFile = None
    /\ tracker = NewTracker(config.speakerThreshold, TRUE, SherpaCaps)
    /\ lastIdentify = NotIdentified
    /\ nCalls = 0
    /\ InitPure

\* a SpeakerIdentifier constructed on its own, on any of the store files
InitSpeaker ==
    /\ InitService
    /\ config.asrOverlapMs = 300
    /\ storeFile \in InitStores
    /\ tmpFile = None
    /\ \E caps \in MatcherCaps, hasPath \in BOOLEAN :
          /\ (~hasPath => storeFile = StoreMissing)
          /\ tracker = Construct(config.speakerThreshold, hasPath, caps, storeFile)
    /\ lastIdentify = NotIdentified
    /\ nCalls = 0
    /\ InitPure

----------------------------------------------------------------------------
(* TranscriberService: start, stop, cleanup *)

\* one construction of, or call on, the component built by start() number gen
Op(kind, gen) == [kind |-> kind, gen |-> gen]

\* how often the call was made on that component
Count(log, kind, gen) == Cardinality({i \in DOMAIN log : log[i] = Op(kind, gen)})

\* the components an operation of that kind was made on
Built(log, kind) == {log[i].gen : i \in {j \in DOMAIN log : log[j].kind = kind}}

AppendAll(log, kinds, gen) == log \o [i \in 1..Len(kinds) |-> Op(kinds[i], gen)]

\* the teardown steps of cleanup() that can raise, given the components it holds
TeardownSteps(cap, v, sink) ==
    (IF IsNull(cap) THEN {} ELSE {"captureStop"})
      \cup (IF IsNull(v) THEN {} ELSE {"vadDestroy"})
      \cup (IF IsNull(sink) THEN {} ELSE {"sinkClose"})

\* a variant of the teardown that stops only a capture that was started and
\* destroys only a VAD that had its handler attached
teardownStartedOnly(log, cap, v, sink, throws) ==
    LET l1 == IF IsNull(cap) \/ Count(log, "captureStart", cap[1]) = 0
              THEN log ELSE Append(log, Op("captureStop", cap[1]))
        l2 == IF IsNull(v) \/ Count(log, "onSpeech", v[1]) = 0
              THEN l1 ELSE Append(l1, Op("vadDestroy", v[1]))
        l3 == IF IsNull(sink) THEN l2 ELSE Append(l2, Op("sinkClose", sink[1]))
    IN l3

\* a variant of the teardown that gives up at the first step that raises
teardownUntilThrow(log, cap, v, sink, throws) ==
    LET l1 == IF IsNull(cap) THEN log ELSE Append(log, Op("captureStop", cap[1]))
        l2 == IF IsNull(v) \/ "captureStop" \in throws
              THEN l1 ELSE Append(l1, Op("vadDestroy", v[1]))
        l3 == IF IsNull(sink) \/ throws \cap {"captureStop", "vadDestroy"} # {}
              THEN l2 ELSE Append(l2, Op("sinkClose", sink[1]))
    IN l3

\* cleanup(), the teardown: capture stop, VAD destroy, sink close, each in its
\* own try/catch; throws are the steps that raise
teardown(log, cap, v, sink, throws) ==
    LET l1 == IF IsNull(cap) THEN log ELSE Append(log, Op("captureStop", cap[1]))
        l2 == IF IsNull(v) THEN l1 ELSE Append(l1, Op("vadDestroy", v[1]))
        l3 == IF IsNull(sink) THEN l2 ELSE Append(l2, Op("sinkClose", sink[1]))
    IN l3

\* a variant of cleanup() that leaves the overlap context as it is
CleanupKeepContext(cap, v, sink, log, call) ==
    /\ audioCapture' = None /\ vad' = None /\ transcriber' = None
    /\ fileWriter' = None /\ speakerIdentifier' = None
    /\ UNCHANGED <<previousSpeechTail, lastSpeechEndMs, previousTranscript>>
    /\ running' = FALSE
    /\ \E throws \in SUBSET TeardownSteps(cap, v, sink) :
          /\ componentOps' = teardown(log, cap, v, sink, throws)
          /\ lastCall' = [call EXCEPT !.threw = throws]

\* cleanup() on a service that holds the components cap, v and sink, after the
\* operations in log, within the call noted in call
Cleanup(cap, v, sink, log, call) ==
    /\ audioCapture' = None /\ vad' = None /\ transcriber' = None
    /\ fileWriter' = None /\ speakerIdentifier' = None
    /\ previousSpeechTail' = None /\ lastSpeechEndMs' = None
    /\ previousTranscript' = <<>>
    /\ running' = FALSE
    /\ \E throws \in SUBSET TeardownSteps(cap, v, sink) :
          /\ componentOps' = teardown(log, cap, v, sink, throws)
          /\ lastCall' = [call EXCEPT !.threw = throws]

\* a variant of start() without its test of running
startReturnsAtOnceNever(isRunning) == FALSE

\* start(): if (this.running) return
startReturnsAtOnce(isRunning) == isRunning

\* a variant of stop() without its test of running
stopReturnsAtOnceNever(isRunning) == FALSE

\* stop(): if (!this.running) return
stopReturnsAtOnce(isRunning) == ~isRunning

StartCall(outcome, error) ==
    [op |-> "start", outcome |-> outcome, error |-> error, threw |-> {}]

\* start() up to its await of vad.init(); failAt is the step that raises, if any
StartBeginWithin(limit) ==
    /\ startPc = "idle"
    /\ ~startReturnsAtOnce(running)
    /\ nextGen < limit
    /\ \E failAt \in {"none", "transcriber", "capture", "vad"} :
         LET gen == nextGen + 1
             rejected == StartCall("rejected", failAt)
         IN
         /\ nextGen' = gen
         /\ asrOverlapSamples' = Max(0, (config.asrOverlapMs * SEGMENT_SAMPLE_RATE) \div 1000)
         /\ asrOverlapMaxGapMs' = config.asrOverlapMaxGapMs
         /\ CASE failAt = "none" ->
                 /\ previousSpeechTail' = None /\ lastSpeechEndMs' = None
                 /\ previousTranscript' = <<>>
                 /\ fileWriter' = Some(gen)
                 /\ transcriber' = Some(gen)
                 /\ audioCapture' = Some(gen)
                 /\ vad' = Some(gen)
                 /\ startPc' = "awaitInit"
                 /\ componentOps' = AppendAll(componentOps,
                        <<"newSink", "newTranscriber", "newCapture", "newVad">>, gen)
                 /\ lastCall' = StartCall("pending", "none")
                 /\ UNCHANGED <<running, speakerIdentifier>>
              [] failAt = "transcriber" ->
                 /\ Cleanup(audioCapture, vad, Some(gen),
                            AppendAll(componentOps, <<"newSink">>, gen), rejected)
                 /\ UNCHANGED startPc
              [] failAt = "capture" ->
                 /\ Cleanup(audioCapture, vad, Some(gen),
                            AppendAll(componentOps, <<"newSink", "newTranscriber">>, gen),
                            rejected)
                 /\ UNCHANGED startPc
              [] failAt = "vad" ->
                 /\ Cleanup(Some(gen), vad, Some(gen),
                            AppendAll(componentOps,
                               <<"newSink", "newTranscriber", "newCapture">>, gen),
                            rejected)
                 /\ UNCHANGED startPc
    /\ UNCHANGED <<config, handlerVads, now, nEvents, records, lastHandled, lastAudio,
                   suspended,
                   trkVars, pureCall>>

StartBegin == StartBeginWithin(MaxStarts)

\* start() called while the service runs: returns at once
StartWhileRunning ==
    /\ startReturnsAtOnce(running)
    /\ lastCall' = StartCall("resolved", "none")
    /\ UNCHANGED <<svcVars, startPc, nextGen, handlerVads, now, nEvents, records,
                   lastHandled, componentOps, lastAudio, suspended, trkVars,
                   pureCall>>

\* vad.init() resolved: the rest of start(); failAt is the step that raises, if any
StartInitResolved ==
    /\ startPc = "awaitInit"
    /\ startPc' = "idle"
    /\ \E failAt \in {"none", "speaker", "captureStart"} :
         LET wired == AppendAll(
                        AppendAll(componentOps, <<"newSpeaker", "onSpeech">>, vad[1]),
                        <<"onAudio", "captureStart">>, audioCapture[1])
             rejected == StartCall("rejected", failAt)
         IN
         /\ IF failAt = "speaker"
            THEN UNCHANGED <<tracker, handlerVads>>
            ELSE /\ tracker' = Construct(config.speakerThreshold, TRUE, SherpaCaps, storeFile)
                 /\ handlerVads' = handlerVads \cup {vad[1]}
         /\ CASE failAt = "none" ->
                 /\ speakerIdentifier' = Some(vad[1])
                 /\ running' = TRUE
                 /\ componentOps' = wired
                 /\ lastCall' = StartCall("resolved", "none")
                 /\ UNCHANGED <<audioCapture, vad, transcriber, fileWriter,
                                previousSpeechTail, lastSpeechEndMs, previousTranscript>>
              [] failAt = "speaker" ->
                 Cleanup(audioCapture, vad, fileWriter, componentOps, rejected)
              [] failAt = "captureStart" ->
                 Cleanup(audioCapture, vad, fileWriter, wired, rejected)
    /\ UNCHANGED <<config, asrOverlapSamples, asrOverlapMaxGapMs, nextGen, now, nEvents,
                   records, lastHandled, lastAudio, suspended, storeFile, tmpFile,
                   lastIdentify,
                   nCalls, pureCall>>

\* vad.init() rejected: start() cleans up and rejects
StartInitRejected ==
    /\ startPc = "awaitInit"
    /\ startPc' = "idle"
    /\ Cleanup(audioCapture, vad, fileWriter, componentOps,
               StartCall("rejected", "vadInit"))
    /\ UNCHANGED <<config, asrOverlapSamples, asrOverlapMaxGapMs, nextGen, handlerVads,
                   now, nEvents, records, lastHandled, lastAudio, suspended, trkVars,
                   pureCall>>

StopCall == [op |-> "stop", outcome |-> "resolved", error |-> "none", threw |-> {}]

Stop ==
    /\ IF stopReturnsAtOnce(running)
       THEN /\ lastCall' = StopCall
            /\ UNCHANGED <<audioCapture, vad, transcriber, fileWriter, speakerIdentifier,
                           previousSpeechTail, lastSpeechEndMs, previousTranscript,
                           running, componentOps>>
       ELSE Cleanup(audioCapture, vad, fileWriter, componentOps, StopCall)
    /\ UNCHANGED <<config, asrOverlapSamples, asrOverlapMaxGapMs, startPc, nextGen,
                   handlerVads, now, nEvents, records, lastHandled, lastAudio, suspended,
                   trkVars,
                   pureCall>>

\* a variant of the capture's "audio" handler without its test of this.vad
forwardsAudioAlways(v) == TRUE

\* the capture's "audio" handler: if (!this.vad) return
forwardsAudio(v) == ~IsNull(v)

\* A capture that has the handler attached emits an audio chunk: the handler
\* gives it, after the gain stage, to the VAD the service holds.
AudioEvent ==
    /\ \E g \in Built(componentOps, "onAudio") :
          lastAudio' = [capture |-> g, forwarded |-> forwardsAudio(vad), vad |-> vad]
    /\ UNCHANGED <<svcVars, startPc, nextGen, handlerVads, now, nEvents, records,
                   lastHandled, componentOps, lastCall, suspended, trkVars, pureCall>>

----------------------------------------------------------------------------
(* TranscriberService: the VAD "speech" handler *)

IdentifyNote(op, audioLen, e, r) ==
    [call |-> nCalls + 1, op |-> op, audioLen |-> audioLen, path |-> r.path,
     ret |-> r.ret, threw |-> r.threw, verify |-> r.verify, ready |-> e.ready,
     embedding |-> e.embedding, found |-> e.found, strictMatch |-> e.strictMatch,
     writeOk |-> e.writeOk, fs |-> e.fs, saved |-> r.saved,
     writesOk |-> lastIdentify.writesOk /\ e.writeOk,
     prevPath |-> lastIdentify.path]

\* The handler's body for one event once its guard has passed. asr is what
\* transcribe does, e what identify's collaborators do, writeThrows whether the
\* sink's write raises.
HandleSpeech(event, asr, e, writeThrows) ==
    LET prep == prepareAudioForAsr(event.audio, event.startTime)
        ctx == updateSpeechContext(event.audio, event.startTime, event.durationMs)
        text == IF asr.threw THEN <<>> ELSE segmentText(prep.usedOverlap, asr.text)
        emit == ~asr.threw /\ emitsRecord(text)
        r == identify(tracker, storeFile, bufLen(event.audio), e)
        written == emit /\ ~r.threw /\ ~writeThrows
    IN /\ previousSpeechTail' = ctx.previousSpeechTail
       /\ lastSpeechEndMs' = ctx.lastSpeechEndMs
       /\ IF emit
          THEN /\ tracker' = r.t
               /\ storeFile' = r.store
               /\ tmpFile' = IF r.saved THEN saveTmp(r.t, tmpFile, e.fs) ELSE tmpFile
               /\ lastIdentify' = IdentifyNote("handler", bufLen(event.audio), e, r)
               /\ nCalls' = nCalls + 1
          ELSE UNCHANGED trkVars
       /\ records' = IF written
                     THEN Append(records, [ts |-> event.startTime,
                                           duration |-> roundDuration(event.durationMs),
                                           text |-> text,
                                           speaker |-> r.ret])
                     ELSE records
       /\ previousTranscript' = IF written THEN text ELSE previousTranscript
       /\ lastHandled' =
            [event |-> event, run |-> transcriber[1],
             prevEvent |-> lastHandled.event, prevRun |-> lastHandled.run,
             prevAsrThrew |-> lastHandled.asrThrew, prevText |-> lastHandled.text,
             audioForAsr |-> prep.audioForAsr, usedOverlap |-> prep.usedOverlap,
             asrThrew |-> asr.threw,
             rawText |-> asr.text, text |-> text,
             identifyCalled |-> emit, identifyThrew |-> emit /\ r.threw,
             writeCalled |-> emit /\ ~r.threw,
             writeThrew |-> emit /\ ~r.threw /\ writeThrows,
             escapes |-> escapesHandler(asr.threw \/ (emit /\ (r.threw \/ writeThrows)))]

\* The collaborators' behaviours the handler can observe for this event: the
\* ones of a call it does not make are fixed, so that no step is drawn twice.
HandlerEnvs(event, asr) ==
    LET prep == prepareAudioForAsr(event.audio, event.startTime)
    IN IF ~asr.threw /\ emitsRecord(segmentText(prep.usedOverlap, asr.text))
       THEN HandlerIdentifyEnvs(tracker, bufLen(event.audio))
       ELSE {QuietEnv}

HandlerWrites(event, asr, e) ==
    LET prep == prepareAudioForAsr(event.audio, event.startTime)
    IN IF /\ ~asr.threw
          /\ emitsRecord(segmentText(prep.usedOverlap, asr.text))
          /\ ~identify(tracker, storeFile, bufLen(event.audio), e).threw
       THEN BOOLEAN
       ELSE {FALSE}

\* A VAD that has the handler attached emits a speech event: at most limit events
\* per behaviour, transcribe answers as in asrs, and identify and the sink's
\* write raise only if faults.
SpeechEventWithin(limit, lens, gaps, asrs, faults) ==
    /\ nEvents < limit
    /\ \E g \in handlerVads, len \in lens, gap \in gaps :
         LET event == [id |-> nEvents + 1,
                       audio |-> EventAudio(nEvents + 1, len),
                       startTime |-> now + gap,
                       durationMs |-> (len * 1000) \div SEGMENT_SAMPLE_RATE]
         IN /\ nEvents' = nEvents + 1
            /\ now' = event.startTime + event.durationMs
            /\ IF IsNull(transcriber) \/ IsNull(speakerIdentifier) \/ IsNull(fileWriter)
               THEN UNCHANGED <<previousSpeechTail, lastSpeechEndMs, previousTranscript,
                                records, lastHandled, trkVars>>
               ELSE \E asr \in asrs :
                       \E e \in {x \in HandlerEnvs(event, asr) : faults \/ ~x.throws} :
                          \E writeThrows \in {w \in HandlerWrites(event, asr, e) :
                                                 faults \/ ~w} :
                             HandleSpeech(event, asr, e, writeThrows)
    /\ UNCHANGED <<config, running, audioCapture, vad, transcriber, fileWriter,
                   speakerIdentifier, asrOverlapSamples, asrOverlapMaxGapMs,
                   startPc, nextGen, handlerVads, lifeVars, pureCall>>

SpeechEventOf(lens, gaps) == SpeechEventWithin(MaxEvents, lens, gaps, AsrOutcomes, TRUE)

SpeechEvent == SpeechEventOf(SpeechLens, Gaps)

----------------------------------------------------------------------------
(* SpeakerIdentifier called directly *)

IdentifyWithin(limit) ==
    /\ nCalls < limit
    /\ \E audioLen \in AudioLens :
       \E e \in IdentifyEnvs(tracker, audioLen) :
         LET r == identify(tracker, storeFile, audioLen, e)
         IN /\ tracker' = r.t
            /\ storeFile' = r.store
            /\ tmpFile' = IF r.saved THEN saveTmp(r.t, tmpFile, e.fs) ELSE tmpFile
            /\ lastIdentify' = IdentifyNote("identify", audioLen, e, r)
            /\ nCalls' = nCalls + 1
    /\ UNCHANGED <<svcVars, envVars, pureCall>>

ResetWithin(limit) ==
    /\ nCalls < limit
    /\ \E fs \in FsOutcomes :
         LET writeOk == fs.failAt = "none"
             r == reset(tracker, storeFile, writeOk)
         IN /\ tracker' = r.t
            /\ storeFile' = r.store
            /\ tmpFile' = saveTmp(r.t, tmpFile, fs)
            /\ lastIdentify' = [NotIdentified EXCEPT !.call = nCalls + 1, !.op = "reset",
                                                     !.path = "reset", !.writeOk = writeOk,
                                                     !.fs = fs, !.saved = TRUE,
                                                     !.writesOk =
                                                        lastIdentify.writesOk /\ writeOk,
                                                     !.prevPath = lastIdentify.path]
            /\ nCalls' = nCalls + 1
    /\ UNCHANGED <<svcVars, envVars, pureCall>>

Identify == IdentifyWithin(MaxCalls)

Reset == ResetWithin(MaxCalls)

IdentifyFresh == IdentifyWithin(MaxFreshCalls)

ResetFresh == ResetWithin(MaxFreshCalls)

----------------------------------------------------------------------------
(* Specifications *)

Next ==
    \/ StartBegin
    \/ StartWhileRunning
    \/ StartInitResolved
    \/ StartInitRejected
    \/ Stop
    \/ SpeechEvent

Spec == Init /\ [][Next]_vars

\* The service's life cycle, with the audio chunks of the captures: one
\* configuration, more start() calls
MaxLifeStarts == 3

InitLifecycle == Init /\ config.asrOverlapMs = 300

StartBeginLifecycle == StartBeginWithin(MaxLifeStarts)

\* short speech spans of one length, one after the other without a pause
SpeechEventLifecycle == SpeechEventOf({320}, {0})

NextLifecycle ==
    \/ StartBeginLifecycle
    \/ StartWhileRunning
    \/ StartInitResolved
    \/ StartInitRejected
    \/ Stop
    \/ SpeechEventLifecycle
    \/ AudioEvent

SpecLifecycle == InitLifecycle /\ [][NextLifecycle]_vars

\* Three speech spans in one run of the service, with identify and the sink
\* working: what transcribe answers for each of them
MaxSegments == 3
MaxSegmentStarts == 1

SegmentAsrOutcomes ==
    {[threw |-> TRUE, text |-> <<>>]}
    \cup {[threw |-> FALSE, text |-> x] : x \in {<<>>, <<"a">>, <<"a", " ", "b">>}}

StartBeginSegments == StartBeginWithin(MaxSegmentStarts)

SpeechEventSegments ==
    SpeechEventWithin(MaxSegments, {320}, Gaps, SegmentAsrOutcomes, FALSE)

NextSegments ==
    \/ StartBeginSegments
    \/ StartInitResolved
    \/ StartInitRejected
    \/ Stop
    \/ SpeechEventSegments

SpecSegments == InitLifecycle /\ [][NextSegments]_vars

NextSpeaker ==
    \/ Identify
    \/ Reset

SpecSpeaker == InitSpeaker /\ [][NextSpeaker]_vars

\* a SpeakerIdentifier constructed where there is no store file, or an empty one
InitFresh ==
    /\ InitSpeaker
    /\ storeFile \in {StoreMissing, StoreJson(0, <<>>)}

NextFresh ==
    \/ IdentifyFresh
    \/ ResetFresh

SpecFresh == InitFresh /\ [][NextFresh]_vars

(* save() taken one file operation at a time, with the process crashing *)

Files == [store |-> storeFile, tmp |-> tmpFile]

SetFiles(files) == storeFile' = files.store /\ tmpFile' = files.tmp

\* no call is in progress
SaveIdle == pureCall.fn \in {"none", "returned", "restarted"}

\* pureCall once the call that changed the tracker to t reaches save()
EnterSave(t, saved) ==
    IF saved /\ t.storagePath
    THEN [fn |-> "save", pc |-> "mkdir", old |-> storeFile, data |-> Snapshot(t)]
    ELSE [fn |-> "none"]

\* identify up to its call of save()
IdentifyToSave ==
    /\ SaveIdle
    /\ nCalls < MaxCalls
    /\ \E audioLen \in AudioLens :
       \E e \in {x \in IdentifyEnvs(tracker, audioLen) : x.fs = FsOk} :
         LET r == identify(tracker, storeFile, audioLen, e)
         IN /\ tracker' = r.t
            /\ lastIdentify' = IdentifyNote("identify", audioLen, e, r)
            /\ nCalls' = nCalls + 1
            /\ pureCall' = EnterSave(r.t, r.saved)
    /\ UNCHANGED <<svcVars, envVars, storeFile, tmpFile>>

\* reset up to its call of save()
ResetToSave ==
    /\ SaveIdle
    /\ nCalls < MaxCalls
    /\ LET r == reset(tracker, storeFile, TRUE)
       IN /\ tracker' = r.t
          /\ lastIdentify' = [NotIdentified EXCEPT !.call = nCalls + 1, !.op = "reset",
                                                   !.path = "reset", !.saved = TRUE,
                                                   !.writesOk = lastIdentify.writesOk,
                                                   !.prevPath = lastIdentify.path]
          /\ nCalls' = nCalls + 1
          /\ pureCall' = EnterSave(r.t, r.saved)
    /\ UNCHANGED <<svcVars, envVars, storeFile, tmpFile>>

\* if (!fs.existsSync(dir)) fs.mkdirSync(dir, { recursive: true })
SaveMkdir ==
    /\ pureCall.fn = "save" /\ pureCall.pc = "mkdir"
    /\ \E ok \in BOOLEAN :
         pureCall' = [pureCall EXCEPT !.pc = IF ok THEN "write" ELSE "catch"]
    /\ UNCHANGED <<svcVars, envVars, trkVars>>

\* fs.writeFileSync(tmpPath, ...): it opens the temp file, or raises
SaveWriteBegin ==
    /\ pureCall.fn = "save" /\ pureCall.pc = "write"
    /\ \E ok \in BOOLEAN :
         IF ok
         THEN /\ SetFiles(fsWriteBegin(Files))
              /\ pureCall' = [pureCall EXCEPT !.pc = "writing"]
         ELSE /\ UNCHANGED <<storeFile, tmpFile>>
              /\ pureCall' = [pureCall EXCEPT !.pc = "catch"]
    /\ UNCHANGED <<svcVars, envVars, tracker, lastIdentify, nCalls>>

\* fs.writeFileSync(tmpPath, ...): it writes the rest and returns, or raises
SaveWriteEnd ==
    /\ pureCall.fn = "save" /\ pureCall.pc = "writing"
    /\ \E ok \in BOOLEAN :
         IF ok
         THEN /\ SetFiles(fsWriteEnd(Files, pureCall.data))
              /\ pureCall' = [pureCall EXCEPT !.pc = "rename"]
         ELSE /\ UNCHANGED <<storeFile, tmpFile>>
              /\ pureCall' = [pureCall EXCEPT !.pc = "catch"]
    /\ UNCHANGED <<svcVars, envVars, tracker, lastIdentify, nCalls>>

\* fs.renameSync(tmpPath, this.storagePath), after which save() returns
SaveRename ==
    /\ pureCall.fn = "save" /\ pureCall.pc = "rename"
    /\ \E ok \in BOOLEAN :
         IF ok
         THEN /\ SetFiles(fsRename(Files))
              /\ pureCall' = [pureCall EXCEPT !.fn = "returned"]
         ELSE /\ UNCHANGED <<storeFile, tmpFile>>
              /\ pureCall' = [pureCall EXCEPT !.pc = "catch"]
    /\ UNCHANGED <<svcVars, envVars, tracker, lastIdentify, nCalls>>

\* the catch block: unlinkSync(tmpPath) if the temp file exists, its failure ignored
SaveCatch ==
    /\ pureCall.fn = "save" /\ pureCall.pc = "catch"
    /\ \E unlinkOk \in BOOLEAN :
         IF ~IsNull(tmpFile) /\ unlinkOk
         THEN SetFiles(fsUnlink(Files))
         ELSE UNCHANGED <<storeFile, tmpFile>>
    /\ pureCall' = [pureCall EXCEPT !.fn = "returned"]
    /\ UNCHANGED <<svcVars, envVars, tracker, lastIdentify, nCalls>>

\* The process dies inside save() and is started again: a new SpeakerIdentifier
\* is constructed on what the disk holds.
CrashAndRestart ==
    /\ pureCall.fn = "save"
    /\ tracker' = Construct(tracker.threshold, tracker.storagePath,
                            [verify |-> tracker.managerVerify,
                             remove |-> tracker.managerRemove], storeFile)
    /\ pureCall' = [pureCall EXCEPT !.fn = "restarted"]
    /\ UNCHANGED <<svcVars, envVars, storeFile, tmpFile, lastIdentify, nCalls>>

NextSave ==
    \/ IdentifyToSave
    \/ ResetToSave
    \/ SaveMkdir
    \/ SaveWriteBegin
    \/ SaveWriteEnd
    \/ SaveRename
    \/ SaveCatch
    \/ CrashAndRestart

SpecSave == InitSpeaker /\ [][NextSave]_vars

(* dedupeOverlapText called on its own *)

Alphabet == {"a", "b", "!", " "}

AllStrings(n) == UNION {[1..k -> Alphabet] : k \in 0..n}

\* n tokens "a", separated by single spaces
RECURSIVE Repeated(_)
Repeated(n) == IF n = 0 THEN <<>> ELSE IF n = 1 THEN <<"a">>
               ELSE <<"a", " ">> \o Repeated(n - 1)

\* every short string, and some with upper case, runs of blanks and more than
\* MAX_OVERLAP_TOKENS tokens
TextInputs ==
    AllStrings(MaxTextLen)
    \cup { <<"A", " ", "b">>, <<"a", " ", " ", "b">>, <<"a", "!", " ", "B", "1">>,
           <<"b", " ", "1">>, <<"1", " ", " ", "a", " ">>,
           Repeated(MAX_OVERLAP_TOKENS), Repeated(MAX_OVERLAP_TOKENS + 1),
           <<"b", " ">> \o Repeated(MAX_OVERLAP_TOKENS + 1),
           Repeated(MAX_OVERLAP_TOKENS + 1) \o <<" ", "b">> }

InitDedupe ==
    /\ InitService
    /\ config.asrOverlapMs = 300
    /\ storeFile = StoreMissing
    /\ tmpFile = None
    /\ tracker = NewTracker(config.speakerThreshold, TRUE, SherpaCaps)
    /\ lastIdentify = NotIdentified
    /\ nCalls = 0
    /\ \E prev \in TextInputs, curr \in TextInputs :
          pureCall = [fn |-> "dedupeOverlapText", prev |-> prev, curr |-> curr,
                      done |-> FALSE, out |-> <<>>]

DedupeCall ==
    /\ ~pureCall.done
    /\ pureCall' = [pureCall EXCEPT !.done = TRUE,
                                    !.out = dedupeOverlapText(pureCall.prev, pureCall.curr)]
    /\ UNCHANGED <<svcVars, envVars, trkVars>>

NextDedupe == DedupeCall

SpecDedupe == InitDedupe /\ [][NextDedupe]_vars

----------------------------------------------------------------------------
(* applyGainStage (service.ts), on buffers of numbers                       *)
(*                                                                         *)
(* A sample is an integer in units of 1e-4 (10000 is 1.0), and so are      *)
(* targetPeak, minPeak and noiseGateRms; a gain is in hundredths (105 is   *)
(* 1.05). A sample of a returned buffer is an exact fraction num/den of    *)
(* that unit, so that no rounding is assumed.                              *)

FullScale == 10000

Frac(num, den) == [num |-> num, den |-> den]

\* a / b < c / d, a / b <= c / d for positive b and d
FracLess(x, y) == x.num * y.den < y.num * x.den
FracLeq(x, y) == x.num * y.den <= y.num * x.den

AbsInt(x) == IF x < 0 THEN -x ELSE x

RECURSIVE gainSumSq(_)
gainSumSq(audio) ==
    IF audio = <<>> THEN 0 ELSE audio[1] * audio[1] + gainSumSq(Tail(audio))

RECURSIVE gainPeak(_)
gainPeak(audio) ==
    IF audio = <<>> THEN 0 ELSE Max(AbsInt(audio[1]), gainPeak(Tail(audio)))

\* rms < noiseGateRms, with rms = sqrt(sumSq / max(1, length))
rmsBelow(audio, noiseGateRms) ==
    gainSumSq(audio) < noiseGateRms * noiseGateRms * Max(1, Len(audio))

\* Math.min(options.maxGain, options.targetPeak / peak), for peak > 0
gainOf(peak, options) ==
    IF options.maxGain * peak <= 100 * options.targetPeak
    THEN Frac(options.maxGain, 100)
    ELSE Frac(options.targetPeak, peak)

\* Math.max(-1, Math.min(1, value * gain))
scaleAndClamp(value, gain) ==
    LET scaled == Frac(value * gain.num, gain.den)
    IN IF FracLess(Frac(FullScale, 1), scaled) THEN Frac(FullScale, 1)
       ELSE IF FracLess(scaled, Frac(-FullScale, 1)) THEN Frac(-FullScale, 1)
       ELSE scaled

\* the buffer as returned untouched
asReturned(audio) == [i \in 1..Len(audio) |-> Frac(audio[i], 1)]

\* a variant of applyGainStage that looks at the peak before the noise gate
applyGainStagePeakFirst(audio, options) ==
    LET peak == gainPeak(audio)
    IN IF peak < options.minPeak
       THEN [out |-> asReturned(audio), same |-> TRUE, audio |-> audio]
       ELSE IF options.noiseGateRms > 0 /\ rmsBelow(audio, options.noiseGateRms)
       THEN [out |-> [i \in 1..Len(audio) |-> Frac(0, 1)], same |-> FALSE,
             audio |-> audio]
       ELSE LET gain == gainOf(peak, options)
            IN IF FracLeq(gain, Frac(options.minGainToApply, 100))
               THEN [out |-> asReturned(audio), same |-> TRUE, audio |-> audio]
               ELSE [out |-> [i \in 1..Len(audio) |-> scaleAndClamp(audio[i], gain)],
                     same |-> FALSE, audio |-> audio]

\* a variant of applyGainStage that applies a gain equal to minGainToApply
applyGainStageAtMinGain(audio, options) ==
    LET peak == gainPeak(audio)
    IN IF options.noiseGateRms > 0 /\ rmsBelow(audio, options.noiseGateRms)
       THEN [out |-> [i \in 1..Len(audio) |-> Frac(0, 1)], same |-> FALSE,
             audio |-> audio]
       ELSE IF peak < options.minPeak
       THEN [out |-> asReturned(audio), same |-> TRUE, audio |-> audio]
       ELSE LET gain == gainOf(peak, options)
            IN IF FracLess(gain, Frac(options.minGainToApply, 100))
               THEN [out |-> asReturned(audio), same |-> TRUE, audio |-> audio]
               ELSE [out |-> [i \in 1..Len(audio) |-> scaleAndClamp(audio[i], gain)],
                     same |-> FALSE, audio |-> audio]

\* applyGainStage(audio, options): out is the returned buffer, same tells that
\* it is the input buffer itself, audio is the input buffer after the call
applyGainStage(audio, options) ==
    LET peak == gainPeak(audio)
    IN IF options.noiseGateRms > 0 /\ rmsBelow(audio, options.noiseGateRms)
       THEN [out |-> [i \in 1..Len(audio) |-> Frac(0, 1)], same |-> FALSE,
             audio |-> audio]
       ELSE IF peak < options.minPeak
       THEN [out |-> asReturned(audio), same |-> TRUE, audio |-> audio]
       ELSE LET gain == gainOf(peak, options)
            IN IF FracLeq(gain, Frac(options.minGainToApply, 100))
               THEN [out |-> asReturned(audio), same |-> TRUE, audio |-> audio]
               ELSE [out |-> [i \in 1..Len(audio) |-> scaleAndClamp(audio[i], gain)],
                     same |-> FALSE, audio |-> audio]

MaxGainLen == 2     \* samples per buffer

\* sample values: silence, below either minPeak, quiet, and two louder ones
GainSamples == {0, 3, -50, 1000, -1200}

GainBuffers == UNION {[1..n -> GainSamples] : n \in 0..MaxGainLen}

\* the options of the VAD instance (audio handler) and of the ASR instance
\* (speech handler), over values the config loader lets through
VadGainOptions ==
    [targetPeak : {100, 1200}, maxGain : {100, 2400}, minPeak : {5},
     minGainToApply : {120}, noiseGateRms : {0, 100, 1000}]

AsrGainOptions ==
    [targetPeak : {500, 1050}, maxGain : {100, 800}, minPeak : {1},
     minGainToApply : {105}, noiseGateRms : {0, 100, 1000}]

GainOptions == VadGainOptions \cup AsrGainOptions

NoGainCall == [fn |-> "none"]

InitGain ==
    /\ InitService
    /\ config.asrOverlapMs = 300
    /\ storeFile = StoreMissing
    /\ tmpFile = None
    /\ tracker = NewTracker(config.speakerThreshold, TRUE, SherpaCaps)
    /\ lastIdentify = NotIdentified
    /\ nCalls = 0
    /\ pureCall = NoGainCall

\* one call of applyGainStage, by the audio handler or the speech handler; the
\* function reads its arguments only, so one call is observed on its own
GainCall ==
    /\ pureCall = NoGainCall
    /\ \E audio \in GainBuffers, options \in GainOptions :
          pureCall' = [fn |-> "applyGainStage", audio |-> audio, options |-> options,
                       result |-> applyGainStage(audio, options)]
    /\ UNCHANGED <<svcVars, envVars, trkVars>>

NextGain == GainCall

SpecGain == InitGain /\ [][NextGain]_vars

----------------------------------------------------------------------------
(* TranscriptionLogger (model-downloader.ts)                                *)
(*                                                                         *)
(* The logger's fields, the file descriptors of the process and the files  *)
(* of the output directory are the fields of one record. The wall clock    *)
(* counts half days, so that the UTC date is computed from it. A           *)
(* descriptor is [id, file]; file is the date that names the file.         *)

MaxTicks == 3       \* half days the clock advances
MaxWrites == 3      \* write() calls

TicksPerDay == 2

\* a variant of the date of a write taken in a time zone half a day ahead
localDate(clock) == (clock + 1) \div TicksPerDay + 1

\* new Date().toISOString().split("T")[0]: the UTC calendar date, as a day number
utcDate(clock) == clock \div TicksPerDay + 1

\* currentDate = "": no date
NoDate == 0

LogDates == 1..(MaxTicks \div TicksPerDay + 2)

NoLogOp == [op |-> "none", threw |-> FALSE, entry |-> 0, date |-> NoDate,
            wasClosed |-> FALSE]

NewLogger ==
    [fn |-> "TranscriptionLogger",
     currentDate |-> NoDate, fd |-> None,
     open |-> {}, nextFd |-> 1,
     files |-> [d \in LogDates |-> <<>>],
     clock |-> 0, nWrites |-> 0, closed |-> FALSE, fsFailed |-> FALSE,
     last |-> NoLogOp]

\* rotate(date) on logger l; openOk tells whether fs.openSync succeeds.
\* closeSync of a descriptor that is not open raises, and so does openSync when
\* it fails: threw tells that rotate() raised.
rotate(l, date, openOk) ==
    IF ~IsNull(l.fd) /\ l.fd[1] \notin l.open
    THEN [l |-> l, threw |-> TRUE]
    ELSE LET l1 == IF IsNull(l.fd) THEN l ELSE [l EXCEPT !.open = @ \ {l.fd[1]}]
             l2 == [l1 EXCEPT !.currentDate = date]
             d == [id |-> l.nextFd, file |-> date]
         IN IF openOk
            THEN [l |-> [l2 EXCEPT !.fd = Some(d), !.open = @ \cup {d},
                                   !.nextFd = @ + 1],
                  threw |-> FALSE]
            ELSE [l |-> [l2 EXCEPT !.fsFailed = TRUE], threw |-> TRUE]

\* write(entry) at the logger's clock
logWrite(l, entry, openOk) ==
    LET today == utcDate(l.clock)
        r == IF today # l.currentDate THEN rotate(l, today, openOk)
             ELSE [l |-> l, threw |-> FALSE]
        l1 == r.l
    IN IF r.threw THEN r
       ELSE IF IsNull(l1.fd) \/ l1.fd[1] \notin l1.open
       THEN [l |-> l1, threw |-> TRUE]
       ELSE [l |-> [l1 EXCEPT !.files[l1.fd[1].file] = Append(@, entry)],
             threw |-> FALSE]

\* a variant of close() that closes the descriptor and keeps the field
logCloseKeepFd(l) ==
    IF IsNull(l.fd) THEN [l |-> l, threw |-> FALSE]
    ELSE IF l.fd[1] \notin l.open THEN [l |-> l, threw |-> TRUE]
    ELSE [l |-> [l EXCEPT !.open = @ \ {l.fd[1]}], threw |-> FALSE]

\* close()
logClose(l) ==
    IF IsNull(l.fd) THEN [l |-> l, threw |-> FALSE]
    ELSE IF l.fd[1] \notin l.open THEN [l |-> l, threw |-> TRUE]
    ELSE [l |-> [l EXCEPT !.open = @ \ {l.fd[1]}, !.fd = None], threw |-> FALSE]

InitLogger ==
    /\ InitService
    /\ config.asrOverlapMs = 300
    /\ storeFile = StoreMissing
    /\ tmpFile = None
    /\ tracker = NewTracker(config.speakerThreshold, TRUE, SherpaCaps)
    /\ lastIdentify = NotIdentified
    /\ nCalls = 0
    /\ pureCall = NewLogger

\* the wall clock advances by half a day
LoggerTick ==
    /\ pureCall.clock < MaxTicks
    /\ pureCall' = [pureCall EXCEPT !.clock = @ + 1]
    /\ UNCHANGED <<svcVars, envVars, trkVars>>

\* the openSync outcomes of a write(): it is called only when the date changed
OpenOutcomes(l) == IF utcDate(l.clock) # l.currentDate THEN BOOLEAN ELSE {TRUE}

LoggerWrite ==
    /\ pureCall.nWrites < MaxWrites
    /\ \E openOk \in OpenOutcomes(pureCall) :
          LET entry == pureCall.nWrites + 1
              r == logWrite(pureCall, entry, openOk)
          IN pureCall' = [r.l EXCEPT !.nWrites = entry,
                                     !.last = [op |-> "write", threw |-> r.threw,
                                               entry |-> entry,
                                               date |-> utcDate(pureCall.clock),
                                               wasClosed |-> pureCall.closed]]
    /\ UNCHANGED <<svcVars, envVars, trkVars>>

LoggerClose ==
    /\ LET r == logClose(pureCall)
       IN pureCall' = [r.l EXCEPT !.closed = TRUE,
                                  !.last = [op |-> "close", threw |-> r.threw,
                                            entry |-> 0, date |-> NoDate,
                                            wasClosed |-> pureCall.closed]]
    /\ UNCHANGED <<svcVars, envVars, trkVars>>

NextLogger == LoggerTick \/ LoggerWrite \/ LoggerClose

SpecLogger == InitLogger /\ [][NextLogger]_vars

----------------------------------------------------------------------------
(* getStrictThreshold on its own *)

\* the largest base threshold drawn, in hundredths: loadConfig accepts every
\* finite value >= 0
MaxBaseThreshold == 120

BaseThresholds == 0..MaxBaseThreshold

\* segment durations in hundredths of a second, around the bands' edges
DurationsCs == {0, 12, 45, 59, 60, 90, 119, 120, 200}

NoThresholdCall == [fn |-> "none"]

InitThreshold ==
    /\ InitService
    /\ config.asrOverlapMs = 300
    /\ storeFile = StoreMissing
    /\ tmpFile = None
    /\ tracker = NewTracker(config.speakerThreshold, TRUE, SherpaCaps)
    /\ lastIdentify = NotIdentified
    /\ nCalls = 0
    /\ pureCall = NoThresholdCall

\* one call of getStrictThreshold, as identify makes it for a candidate
ThresholdCall ==
    /\ pureCall = NoThresholdCall
    /\ \E base \in BaseThresholds, d \in DurationsCs :
          pureCall' = [fn |-> "getStrictThreshold", baseThreshold |-> base,
                       durationCs |-> d, result |-> getStrictThreshold(base, d)]
    /\ UNCHANGED <<svcVars, envVars, trkVars>>

NextThreshold == ThresholdCall

SpecThreshold == InitThreshold /\ [][NextThreshold]_vars

----------------------------------------------------------------------------
(* SpeakerIdentifier: the constructor's load() on its own *)

\* entries per store file, and the largest stored speakerCount
MaxStoreEntries == 3
MaxStoredCount == 3

\* what a stored entry may hold: a valid embedding, one with a non-finite
\* component, one of squared norm 1e-8; no count (an older store), 0, or 5
StoredEmbeddings == {EmbA, EmbNaN, EmbTiny}
StoredCounts == {None, Some(0), Some(5)}

\* store files that parse, with one entry per name as save() writes them, in the
\* order of their names; speakerCount may be smaller than a stored name's number
LoadStores ==
    {StoreJson(n, [i \in 1..Len(names) |->
                     [name |-> SpeakerName(names[i]), embedding |-> es[i], count |-> cs[i]]]) :
       n \in 0..MaxStoredCount,
       names \in {<<>>, <<1>>, <<2>>, <<1, 2>>, <<2, 3>>, <<1, 2, 3>>},
       es \in [1..MaxStoreEntries -> StoredEmbeddings],
       cs \in [1..MaxStoreEntries -> StoredCounts]}

NotLoaded == [fn |-> "none"]

\* the constructor before load(): the fields' initial values
InitLoad ==
    /\ InitService
    /\ config.asrOverlapMs = 300
    /\ storeFile \in LoadStores
    /\ tmpFile = None
    /\ \E caps \in MatcherCaps : tracker = NewTracker(config.speakerThreshold, TRUE, caps)
    /\ lastIdentify = NotIdentified
    /\ nCalls = 0
    /\ pureCall = NotLoaded

\* this.load(), the constructor's last statement
Load ==
    /\ pureCall = NotLoaded
    /\ tracker' = load(tracker, storeFile)
    /\ pureCall' = [fn |-> "load"]
    /\ UNCHANGED <<svcVars, envVars, storeFile, tmpFile, lastIdentify, nCalls>>

NextLoad == Load

SpecLoad == InitLoad /\ [][NextLoad]_vars

----------------------------------------------------------------------------
(* TranscriberService: start() and stop() calls that overlap *)

\* start() calls that build components, when calls overlap
MaxOverlapStarts == 3

\* a start() suspended at await this.vad.init(): gen is the VAD whose init() it
\* awaits. It keeps no component in a local: the rest of start() reads the fields.
AwaitingInit(gen) ==
    [call |-> "start", at |-> "vadInit", gen |-> gen, sink |-> None, error |-> "none"]

\* a cleanup() suspended at await vad.destroy(): gen is the VAD being destroyed,
\* sink the cleanup's local fileWriter, call the call that awaits the cleanup
AwaitingDestroy(call, error, v, sink) ==
    [call |-> call, at |-> "vadDestroy", gen |-> v[1], sink |-> sink, error |-> error]

\* what the call that awaited a cleanup() does when the cleanup is over
Settled(call, error) ==
    IF call = "stop" THEN StopCall ELSE StartCall("rejected", error)

\* cleanup() up to its await, on a service that holds cap, v and sink after the
\* operations in log: the fields are cleared, the capture is stopped and
\* vad.destroy() is called. Without a VAD nothing is awaited and the sink is
\* closed in the same step. rest are the other suspended calls.
CleanupBegin(cap, v, sink, log, call, error, rest) ==
    LET l1 == IF IsNull(cap) THEN log ELSE Append(log, Op("captureStop", cap[1]))
        l2 == IF IsNull(v) THEN l1 ELSE Append(l1, Op("vadDestroy", v[1]))
        l3 == IF IsNull(sink) THEN l2 ELSE Append(l2, Op("sinkClose", sink[1]))
    IN /\ audioCapture' = None /\ vad' = None /\ transcriber' = None
       /\ fileWriter' = None /\ speakerIdentifier' = None
       /\ previousSpeechTail' = None /\ lastSpeechEndMs' = None
       /\ previousTranscript' = <<>>
       /\ running' = FALSE
       /\ IF IsNull(v)
          THEN /\ componentOps' = l3
               /\ lastCall' = Settled(call, error)
               /\ suspended' = rest
          ELSE /\ componentOps' = l2
               /\ lastCall' = [op |-> call, outcome |-> "pending", error |-> error,
                               threw |-> {}]
               /\ suspended' = rest \cup {AwaitingDestroy(call, error, v, sink)}

\* start() up to its await of vad.init(), whatever other calls are suspended;
\* failAt is the step that raises, if any
OverlapStartBegin ==
    /\ ~startReturnsAtOnce(running)
    /\ nextGen < MaxOverlapStarts
    /\ \E failAt \in {"none", "transcriber", "capture", "vad"} :
         LET gen == nextGen + 1
         IN
         /\ nextGen' = gen
         /\ asrOverlapSamples' = Max(0, (config.asrOverlapMs * SEGMENT_SAMPLE_RATE) \div 1000)
         /\ asrOverlapMaxGapMs' = config.asrOverlapMaxGapMs
         /\ CASE failAt = "none" ->
                 /\ previousSpeechTail' = None /\ lastSpeechEndMs' = None
                 /\ previousTranscript' = <<>>
                 /\ fileWriter' = Some(gen)
                 /\ transcriber' = Some(gen)
                 /\ audioCapture' = Some(gen)
                 /\ vad' = Some(gen)
                 /\ suspended' = suspended \cup {AwaitingInit(gen)}
                 /\ componentOps' = AppendAll(componentOps,
                        <<"newSink", "newTranscriber", "newCapture", "newVad">>, gen)
                 /\ lastCall' = StartCall("pending", "none")
                 /\ UNCHANGED <<running, speakerIdentifier>>
              [] failAt = "transcriber" ->
                 CleanupBegin(audioCapture, vad, Some(gen),
                              AppendAll(componentOps, <<"newSink">>, gen),
                              "start", failAt, suspended)
              [] failAt = "capture" ->
                 CleanupBegin(audioCapture, vad, Some(gen),
                              AppendAll(componentOps, <<"newSink", "newTranscriber">>, gen),
                              "start", failAt, suspended)
              [] failAt = "vad" ->
                 CleanupBegin(Some(gen), vad, Some(gen),
                              AppendAll(componentOps,
                                 <<"newSink", "newTranscriber", "newCapture">>, gen),
                              "start", failAt, suspended)
    /\ UNCHANGED <<config, startPc, handlerVads, now, nEvents, records, lastHandled,
                   lastAudio, trkVars, pureCall>>

\* vad.init() of a suspended start() settles: the rest of that start(), on the
\* components the fields hold by then; failAt is the step that raises, if any.
\* When a cleanup() has cleared the fields, this.vad.on(...) raises.
OverlapInitSettled ==
    \E s \in {x \in suspended : x.at = "vadInit"} :
    \E failAt \in {"none", "vadInit", "speaker", "captureStart"} :
       LET rest == suspended \ {s}
           built == Append(componentOps, Op("newSpeaker", s.gen))
       IN
       /\ IF failAt \in {"vadInit", "speaker"}
          THEN /\ CleanupBegin(audioCapture, vad, fileWriter, componentOps,
                               "start", failAt, rest)
               /\ UNCHANGED <<tracker, handlerVads>>
          ELSE /\ tracker' = Construct(config.speakerThreshold, TRUE, SherpaCaps, storeFile)
               /\ IF IsNull(vad)
                  THEN /\ CleanupBegin(audioCapture, vad, fileWriter, built,
                                       "start", "vadIsNull", rest)
                       /\ UNCHANGED handlerVads
                  ELSE LET wired == AppendAll(
                                      AppendAll(built, <<"onSpeech">>, vad[1]),
                                      <<"onAudio", "captureStart">>, audioCapture[1])
                       IN /\ handlerVads' = handlerVads \cup {vad[1]}
                          /\ IF failAt = "captureStart"
                             THEN CleanupBegin(audioCapture, vad, fileWriter, wired,
                                               "start", failAt, rest)
                             ELSE /\ speakerIdentifier' = Some(s.gen)
                                  /\ running' = TRUE
                                  /\ componentOps' = wired
                                  /\ lastCall' = StartCall("resolved", "none")
                                  /\ suspended' = rest
                                  /\ UNCHANGED <<audioCapture, vad, transcriber, fileWriter,
                                                 previousSpeechTail, lastSpeechEndMs,
                                                 previousTranscript>>
       /\ UNCHANGED <<config, asrOverlapSamples, asrOverlapMaxGapMs, startPc, nextGen, now,
                      nEvents, records, lastHandled, lastAudio, storeFile, tmpFile,
                      lastIdentify, nCalls, pureCall>>

\* stop(), whatever other calls are suspended
OverlapStop ==
    /\ IF stopReturnsAtOnce(running)
       THEN /\ lastCall' = StopCall
            /\ UNCHANGED <<audioCapture, vad, transcriber, fileWriter, speakerIdentifier,
                           previousSpeechTail, lastSpeechEndMs, previousTranscript,
                           running, componentOps, suspended>>
       ELSE CleanupBegin(audioCapture, vad, fileWriter, componentOps,
                         "stop", "none", suspended)
    /\ UNCHANGED <<config, asrOverlapSamples, asrOverlapMaxGapMs, startPc, nextGen,
                   handlerVads, now, nEvents, records, lastHandled, lastAudio, trkVars,
                   pureCall>>

\* vad.destroy() of a suspended cleanup() settles: the cleanup closes its sink
\* and the call that awaited it resolves (stop) or rejects (start)
OverlapDestroySettled ==
    /\ \E s \in {x \in suspended : x.at = "vadDestroy"} :
          /\ componentOps' = IF IsNull(s.sink) THEN componentOps
                             ELSE Append(componentOps, Op("sinkClose", s.sink[1]))
          /\ lastCall' = Settled(s.call, s.error)
          /\ suspended' = suspended \ {s}
    /\ UNCHANGED <<svcVars, startPc, nextGen, handlerVads, now, nEvents, records,
                   lastHandled, lastAudio, trkVars, pureCall>>

NextOverlap ==
    \/ OverlapStartBegin
    \/ StartWhileRunning
    \/ OverlapInitSettled
    \/ OverlapStop
    \/ OverlapDestroySettled

SpecOverlap == InitLifecycle /\ [][NextOverlap]_vars

----------------------------------------------------------------------------
(* Properties of the speech handler (checked on Spec) *)

\* the step of a speech handler whose guard passed
HandledStep == lastHandled' # lastHandled

\* the last n samples of the audio of one speech event, all of it if shorter
LastSamples(audio, n) ==
    IF audio = <<>> \/ n <= 0 THEN <<>>
    ELSE <<[audio[1] EXCEPT !.lo = audio[1].hi - Min(n, audio[1].hi - audio[1].lo)]>>

\* the samples a tail holds; a tail that is null holds none
TailSamples(tail) == IF IsNull(tail) THEN <<>> ELSE tail[1]

\* s without its leading and trailing blanks
Trimmed(s) ==
    LET solid == {i \in 1..Len(s) : s[i] # " "}
    IN IF solid = {} THEN <<>>
       ELSE SubSeq(s, CHOOSE i \in solid : \A j \in solid : i <= j,
                      CHOOSE i \in solid : \A j \in solid : i >= j)

\* the last handled event follows another one handled in the same run
HasPrevious == lastHandled.prevEvent.id > 0 /\ lastHandled.prevRun = lastHandled.run

\* startTime(N+1) - (startTime(N) + duration(N))
GapMs ==
    lastHandled.event.startTime
      - (lastHandled.prevEvent.startTime + lastHandled.prevEvent.durationMs)

\* C1: for two consecutive events handled in one run with overlapSamples > 0 and
\* a gap of at most asrOverlapMaxGapMs, the buffer given to the ASR stage is the
\* last min(overlapSamples, length) samples of the first event's own audio
\* followed by the second event's audio, whatever the first transcription did.
C1_OverlapPrepended ==
    (/\ lastHandled.event.id > 0
     /\ HasPrevious
     /\ asrOverlapSamples > 0
     /\ GapMs <= config.asrOverlapMaxGapMs)
    => /\ lastHandled.usedOverlap
       /\ lastHandled.audioForAsr =
            LastSamples(lastHandled.prevEvent.audio, asrOverlapSamples)
               \o lastHandled.event.audio

\* the overlap is used at a gap of exactly the maximum, after a transcription
\* that threw, with a previous segment longer than the overlap
C1_Witness ==
    /\ HasPrevious
    /\ lastHandled.prevAsrThrew
    /\ GapMs = config.asrOverlapMaxGapMs
    /\ bufLen(lastHandled.prevEvent.audio) > asrOverlapSamples
    /\ lastHandled.usedOverlap
    /\ bufLen(lastHandled.audioForAsr) = asrOverlapSamples + bufLen(lastHandled.event.audio)

\* C2: an event that starts more than asrOverlapMaxGapMs after the end of the
\* previous segment, or is the first since start(), or is handled with
\* asrOverlapMs = 0, is transcribed from its own audio alone, usedOverlap is
\* false and the raw text is only trimmed.
C2_NoOverlap ==
    (/\ lastHandled.event.id > 0
     /\ \/ ~HasPrevious
        \/ GapMs > config.asrOverlapMaxGapMs
        \/ config.asrOverlapMs = 0)
    => /\ ~lastHandled.usedOverlap
       /\ lastHandled.audioForAsr = lastHandled.event.audio
       /\ (~lastHandled.asrThrew => lastHandled.text = Trimmed(lastHandled.rawText))

\* after a long gap the text of the previous segment comes again and is kept
C2_Witness ==
    /\ HasPrevious
    /\ asrOverlapSamples > 0
    /\ GapMs > config.asrOverlapMaxGapMs
    /\ ~lastHandled.usedOverlap
    /\ lastHandled.prevText = <<"a">>
    /\ lastHandled.rawText = <<"a">>
    /\ lastHandled.text = <<"a">>

\* C3: when a speech handler finishes, whatever the transcription did,
\* previousSpeechTail holds the last overlapSamples samples of that event's own
\* audio and lastSpeechEndMs is that event's startTime + duration.
C3_ContextUpdated ==
    [][HandledStep =>
         /\ TailSamples(previousSpeechTail') =
               LastSamples(lastHandled'.event.audio, asrOverlapSamples)
         /\ lastSpeechEndMs' =
               Some(lastHandled'.event.startTime + lastHandled'.event.durationMs)]_vars

\* the transcription of a buffer with a prepended tail threw, and the tail kept
\* is cut from the event's own audio
C3_Witness ==
    /\ lastHandled.usedOverlap
    /\ lastHandled.asrThrew
    /\ bufLen(lastHandled.event.audio) > asrOverlapSamples
    /\ previousSpeechTail = Some(LastSamples(lastHandled.event.audio, asrOverlapSamples))
    /\ lastSpeechEndMs = Some(now)

\* C4: once a segment with a non-empty final text has been handled,
\* previousTranscript is that text, also when identification or the sink raised.
C4_TranscriptRemembered ==
    [][(HandledStep /\ ~lastHandled'.asrThrew /\ Len(lastHandled'.text) > 0)
         => previousTranscript' = lastHandled'.text]_vars

\* C5: a segment whose final text is empty writes no record, does not invoke
\* identification (profiles, speakerCount and lastSpeaker unchanged) and leaves
\* previousTranscript as it was.
C5_EmptyTextDropped ==
    [][(HandledStep /\ ~lastHandled'.asrThrew /\ Trimmed(lastHandled'.text) = <<>>)
         => /\ records' = records
            /\ ~lastHandled'.identifyCalled
            /\ nCalls' = nCalls
            /\ tracker' = tracker
            /\ storeFile' = storeFile
            /\ previousTranscript' = previousTranscript]_vars

\* a text that is all overlap is dropped and the transcript before it is kept
C5_Witness ==
    /\ lastHandled.usedOverlap
    /\ ~lastHandled.asrThrew
    /\ lastHandled.rawText # <<>>
    /\ lastHandled.text = <<>>
    /\ previousTranscript = lastHandled.prevText
    /\ previousTranscript # <<>>
    /\ Len(records) = 1
    /\ nCalls = 1

\* C6: a transcription that throws does not escape the handler, writes no
\* record and leaves the service as it was; the next event of the run, if its
\* text is non-empty and identification and the sink work, yields a record.
C6_AsrFailureContained ==
    [][/\ (HandledStep /\ lastHandled'.asrThrew)
          => /\ ~lastHandled'.escapes
             /\ records' = records
             /\ UNCHANGED <<running, audioCapture, vad, transcriber, fileWriter,
                            speakerIdentifier, handlerVads>>
       /\ (/\ HandledStep
           /\ lastHandled.asrThrew
           /\ lastHandled'.run = lastHandled.run
           /\ ~lastHandled'.asrThrew
           /\ Len(lastHandled'.text) > 0
           /\ ~lastHandled'.identifyThrew
           /\ ~lastHandled'.writeThrew)
          => /\ Len(records') = Len(records) + 1
             /\ records'[Len(records')].text = lastHandled'.text
             /\ records'[Len(records')].ts = lastHandled'.event.startTime]_vars

\* the segment after a failed transcription is written
C6_Witness ==
    /\ HasPrevious
    /\ lastHandled.prevAsrThrew
    /\ ~lastHandled.escapes
    /\ Len(records) = 1
    /\ records[1].text = lastHandled.text
    /\ records[1].ts = lastHandled.event.startTime
    /\ running

----------------------------------------------------------------------------
(* Properties of dedupeOverlapText (checked on SpecDedupe) *)

\* where the whitespace-separated words of s start, and the words in order
WordStarts(s) == {i \in 1..Len(s) : s[i] # " " /\ (i = 1 \/ s[i - 1] = " ")}

WordEnd(s, i) ==
    CHOOSE j \in i..Len(s) :
        /\ \A m \in i..j : s[m] # " "
        /\ (j = Len(s) \/ s[j + 1] = " ")

Words(s) ==
    [n \in 1..Cardinality(WordStarts(s)) |->
        LET i == CHOOSE x \in WordStarts(s) :
                    Cardinality({y \in WordStarts(s) : y < x}) = n - 1
        IN SubSeq(s, i, WordEnd(s, i))]

\* the last k normalized words of prev equal the first k of curr, none empty
OverlapOf(prev, curr, k) ==
    \A i \in 1..k :
        LET p == normalizeToken(Words(prev)[Len(Words(prev)) - k + i])
            c == normalizeToken(Words(curr)[i])
        IN p = c /\ p # <<>>

OverlapSizes(prev, curr) ==
    {k \in 1..Min(MAX_OVERLAP_TOKENS, Min(Len(Words(prev)), Len(Words(curr)))) :
        OverlapOf(prev, curr, k)}

\* ws joined by single blanks
RECURSIVE Spaced(_)
Spaced(ws) == IF ws = <<>> THEN <<>>
              ELSE IF Len(ws) = 1 THEN ws[1]
              ELSE ws[1] \o <<" ">> \o Spaced(Tail(ws))

DedupeExpected(prev, curr) ==
    IF OverlapSizes(prev, curr) = {} THEN Trimmed(curr)
    ELSE LET k == CHOOSE x \in OverlapSizes(prev, curr) :
                     \A y \in OverlapSizes(prev, curr) : y <= x
         IN Spaced(SubSeq(Words(curr), k + 1, Len(Words(curr))))

\* C7: dedupeOverlapText(prev, curr) is the words of curr after the first k
\* joined by single blanks, k the largest size of at most 12 (and of at most the
\* number of words on either side) at which the last k normalized words of prev
\* equal the first k of curr with none empty; curr.trim() if there is no such k.
C7_DedupeLargestOverlap ==
    (pureCall.fn = "dedupeOverlapText" /\ pureCall.done)
    => pureCall.out = DedupeExpected(pureCall.prev, pureCall.curr)

\* thirteen equal words on both sides: twelve are dropped and one is left
C7_Witness ==
    /\ pureCall.fn = "dedupeOverlapText"
    /\ pureCall.done
    /\ Len(Words(pureCall.prev)) > MAX_OVERLAP_TOKENS
    /\ Len(Words(pureCall.curr)) > MAX_OVERLAP_TOKENS
    /\ pureCall.out = <<"a">>

----------------------------------------------------------------------------
(* Properties of SpeakerIdentifier.identify (checked on SpecSpeaker) *)

\* the step of one identify call
IdentifyStep == nCalls' = nCalls + 1 /\ lastIdentify'.op = "identify"

\* the call noted in n returned a name it had assigned a profile to
AssignedProfile(n) == n.op = "identify" /\ n.path \in {"new", "rejected", "matched"}

\* the call noted in n had reliable audio and the extractor gave no usable
\* embedding: not ready, a non-finite component, or a squared norm <= 1e-8
NoUsableEmbedding(n) ==
    /\ n.op = "identify"
    /\ n.audioLen >= MIN_RELIABLE_SPEAKER_SAMPLES
    /\ ~n.threw
    /\ \/ ~n.ready
       \/ \E i \in 1..Len(n.embedding) : n.embedding[i] = NaN
       \/ sumSq(n.embedding) <= 1

\* the call noted in n had reliable audio and a valid embedding
UsableEmbedding(n) ==
    /\ n.op = "identify"
    /\ n.audioLen >= MIN_RELIABLE_SPEAKER_SAMPLES
    /\ ~n.threw
    /\ n.ready
    /\ \A i \in 1..Len(n.embedding) : n.embedding[i] # NaN
    /\ sumSq(n.embedding) > 1

\* name's centroid and count in tracker t, if it has them
ProfileOf(t, name) ==
    IF mapHas(t.embeddings, name)
    THEN Some([embedding |-> mapGet(t.embeddings, name),
               count |-> IF mapHas(t.embeddingCounts, name)
                         THEN Some(mapGet(t.embeddingCounts, name)) ELSE None])
    ELSE None

\* C8: identify on audio shorter than MIN_RELIABLE_SPEAKER_SAMPLES returns
\* lastSpeaker, the name the latest profile-assigning identification returned, or
\* "Unknown" if there is none, without invoking the extractor and without
\* changing profiles, speakerCount, lastSpeaker or the store file.
C8_ShortAudioFallback ==
    [][(IdentifyStep /\ lastIdentify'.audioLen < MIN_RELIABLE_SPEAKER_SAMPLES)
         => /\ lastIdentify'.ret = OrElse(tracker.lastSpeaker, "Unknown")
            /\ (AssignedProfile(lastIdentify) => lastIdentify'.ret = lastIdentify.ret)
            /\ lastIdentify'.path = "short"
            /\ tracker' = tracker
            /\ storeFile' = storeFile]_vars

\* a tracker without a store file assigned Speaker_1 and a short segment reuses it
C8_Witness ==
    /\ ~tracker.storagePath
    /\ lastIdentify.op = "identify"
    /\ lastIdentify.audioLen < MIN_RELIABLE_SPEAKER_SAMPLES
    /\ lastIdentify.prevPath = "new"
    /\ lastIdentify.ret = "Speaker_1"
    /\ tracker.speakerCount = 1

\* C9: when the extractor is not ready or the embedding has a non-finite
\* component or a squared norm <= 1e-8, identify returns lastSpeaker or "Unknown"
\* and changes neither the tracker nor the store file; a later identify with a
\* valid embedding on a tracker that is still empty returns Speaker_1.
C9_InvalidEmbeddingFallback ==
    [][/\ (IdentifyStep /\ NoUsableEmbedding(lastIdentify'))
          => /\ lastIdentify'.ret = OrElse(tracker.lastSpeaker, "Unknown")
             /\ tracker' = tracker
             /\ storeFile' = storeFile
       /\ (/\ IdentifyStep
           /\ NoUsableEmbedding(lastIdentify)
           /\ tracker.speakerCount = 0
           /\ tracker.embeddings = <<>>
           /\ UsableEmbedding(lastIdentify'))
          => /\ lastIdentify'.ret = "Speaker_1"
             /\ mapHas(tracker'.embeddings, "Speaker_1")]_vars

\* an embedding of squared norm exactly 1e-8 gave "Unknown", and the next call
\* created Speaker_1
C9_Witness ==
    /\ lastIdentify.prevPath = "invalid"
    /\ UsableEmbedding(lastIdentify)
    /\ lastIdentify.ret = "Speaker_1"
    /\ tracker.speakerCount = 1
    /\ Len(tracker.embeddings) = 1

\* C10: when strict verification runs for a candidate and fails, identify
\* returns a name other than the candidate, Speaker_<speakerCount + 1>, with a new
\* profile of the raw embedding and count 1, lastSpeaker set to it and the store
\* written; the candidate's centroid and count stay as they were.
C10_RejectedCandidateKept ==
    [][(IdentifyStep /\ ~IsNull(lastIdentify'.verify) /\ lastIdentify'.path = "rejected")
         => LET n == lastIdentify'
                newName == SpeakerName(tracker.speakerCount + 1)
            IN /\ n.ret # n.found
               /\ n.ret = newName
               /\ ProfileOf(tracker', newName) =
                     Some([embedding |-> n.embedding, count |-> Some(1)])
               /\ tracker'.lastSpeaker = Some(newName)
               /\ tracker'.speakerCount = tracker.speakerCount + 1
               /\ ((tracker.storagePath /\ n.writeOk) => storeFile' = Snapshot(tracker'))
               /\ ProfileOf(tracker', n.found) = ProfileOf(tracker, n.found)]_vars

----------------------------------------------------------------------------
(* Properties of a tracker that starts without a store (checked on SpecFresh) *)

\* the call noted in n found a candidate and strict verification, where
\* identify runs it, accepted the candidate
MatchAccepted(n) ==
    /\ UsableEmbedding(n)
    /\ n.found # ""
    /\ (IsNull(n.verify) \/ n.strictMatch)

\* C11: from an empty store, identify on valid audio without a matching profile
\* creates exactly one profile, named Speaker_<speakerCount + 1>; identify on
\* audio that matches a profile and passes the verification it needs returns
\* that profile's name, creates no profile and leaves speakerCount.
C11_CreateOrMatch ==
    [][/\ (IdentifyStep /\ UsableEmbedding(lastIdentify') /\ lastIdentify'.found = "")
          => /\ lastIdentify'.ret = SpeakerName(tracker.speakerCount + 1)
             /\ tracker'.speakerCount = tracker.speakerCount + 1
             /\ mapKeys(tracker'.embeddings) =
                   mapKeys(tracker.embeddings) \cup {lastIdentify'.ret}
             /\ Len(tracker'.embeddings) = Len(tracker.embeddings) + 1
             /\ ProfileOf(tracker', lastIdentify'.ret) =
                   Some([embedding |-> lastIdentify'.embedding, count |-> Some(1)])
       /\ (IdentifyStep /\ MatchAccepted(lastIdentify'))
          => /\ lastIdentify'.ret = lastIdentify'.found
             /\ tracker'.speakerCount = tracker.speakerCount
             /\ mapKeys(tracker'.embeddings) = mapKeys(tracker.embeddings)
             /\ Len(tracker'.embeddings) = Len(tracker.embeddings)]_vars

\* Speaker_1, then a dissimilar Speaker_2, then the first utterance again
C11_Witness ==
    /\ nCalls = 3
    /\ tracker.speakerCount = 2
    /\ mapKeys(tracker.embeddings) = {"Speaker_1", "Speaker_2"}
    /\ lastIdentify.prevPath = "new"
    /\ lastIdentify.path = "matched"
    /\ lastIdentify.ret = "Speaker_1"

\* the step of one reset call
ResetStep == nCalls' = nCalls + 1 /\ lastIdentify'.op = "reset"

\* the call noted in n created a profile
CreatedProfile(n) == n.op = "identify" /\ n.path \in {"new", "rejected"}

\* C12 as stated: across identify and reset calls speakerCount never decreases.
C12_CountNeverDecreases ==
    [][tracker'.speakerCount >= tracker.speakerCount]_vars

\* C12 as the code has it: identify never decreases speakerCount and a name it
\* creates is Speaker_<n> with n one more than speakerCount was, so that n grows
\* strictly from creation to creation; reset sets speakerCount to 0, and the
\* numbering starts again.
C12_CountGrowsUntilReset ==
    [][/\ IdentifyStep
          => /\ tracker'.speakerCount >= tracker.speakerCount
             /\ CreatedProfile(lastIdentify')
                => /\ tracker'.speakerCount = tracker.speakerCount + 1
                   /\ lastIdentify'.ret = SpeakerName(tracker'.speakerCount)
             /\ ~CreatedProfile(lastIdentify')
                => tracker'.speakerCount = tracker.speakerCount
       /\ ResetStep => tracker'.speakerCount = 0]_vars

\* a profile was created, reset, and the next profile created is Speaker_1 again
C12_Witness ==
    /\ nCalls = 3
    /\ lastIdentify.prevPath = "reset"
    /\ CreatedProfile(lastIdentify)
    /\ lastIdentify.ret = "Speaker_1"
    /\ tracker.speakerCount = 1

----------------------------------------------------------------------------
(* Properties of the speaker store (checked on SpecSpeaker) *)

\* the collaborators of the call noted in n, with a file system that works
WorkingFsEnv(n) ==
    [throws |-> FALSE, ready |-> n.ready, embedding |-> n.embedding, found |-> n.found,
     strictMatch |-> n.strictMatch, writeOk |-> TRUE, fs |-> FsOk]

\* the call noted in n ran save() on a store path and a file operation raised
WriteFailed(n) == n.saved /\ n.fs.failAt # "none"

\* what the step of a call whose store write failed leaves in memory and on
\* disk, apart from the temp file: as with a write that works, nothing raised,
\* the file at the store path untouched
FailedWriteContained ==
    /\ ~lastIdentify'.threw
    /\ storeFile' = storeFile
    /\ IdentifyStep
       => LET ok == identify(tracker, storeFile, lastIdentify'.audioLen,
                             WorkingFsEnv(lastIdentify'))
          IN /\ tracker' = ok.t
             /\ lastIdentify'.ret = ok.ret
             /\ lastIdentify'.ret # ""
    /\ ResetStep => tracker' = reset(tracker, storeFile, TRUE).t

\* C13 as stated: a failed store write in identify or reset is caught, the
\* result and the tracker's fields are as with a write that works, and no
\* temp file is left.
C13_FailedWriteLeavesNoTemp ==
    [][((IdentifyStep \/ ResetStep) /\ tracker.storagePath /\ WriteFailed(lastIdentify'))
         => (FailedWriteContained /\ IsNull(tmpFile'))]_vars

\* C13 as the code has it: the same, but the temp file is gone only if the
\* unlinkSync of the catch block works; its failure is ignored.
C13_FailedWriteContained ==
    [][((IdentifyStep \/ ResetStep) /\ tracker.storagePath /\ WriteFailed(lastIdentify'))
         => /\ FailedWriteContained
            /\ lastIdentify'.fs.unlinkOk => IsNull(tmpFile')
            /\ (~lastIdentify'.fs.unlinkOk /\ lastIdentify'.fs.partial)
               => tmpFile' = Some(PartialFile)]_vars

\* the rename onto the store path raised: Speaker_1 is returned and kept in
\* memory, nothing is at the store path and the temp file is removed
C13_Witness ==
    /\ lastIdentify.op = "identify"
    /\ lastIdentify.fs.failAt = "rename"
    /\ lastIdentify.saved
    /\ lastIdentify.ret = "Speaker_1"
    /\ tracker.storagePath
    /\ tracker.speakerCount = 1
    /\ storeFile = StoreMissing
    /\ IsNull(tmpFile)

----------------------------------------------------------------------------
(* Properties of save() step by step (checked on SpecSave) *)

\* the tracker a restart constructs on the store file content
Restarted(content) ==
    Construct(tracker.threshold, tracker.storagePath,
              [verify |-> tracker.managerVerify, remove |-> tracker.managerRemove],
              content)

\* C14: while save() runs, after it returned and after a crash inside it, the
\* file at the store path holds the complete content it had before the call or
\* the complete new snapshot, never an unfinished one; a tracker restarted after
\* a crash has loaded one of the two.
C14_StoreReplacedAtomically ==
    /\ storeFile # PartialFile
    /\ pureCall.fn \in {"save", "returned", "restarted"}
       => storeFile \in {pureCall.old, pureCall.data}
    /\ pureCall.fn = "returned"
       => /\ storeFile = pureCall.data => storeFile = save(tracker, pureCall.old, TRUE)
          /\ storeFile # pureCall.data => storeFile = save(tracker, pureCall.old, FALSE)
    /\ pureCall.fn = "restarted"
       => tracker \in {Restarted(pureCall.old), Restarted(pureCall.data)}

\* the process died while the temp file was half written: the store path still
\* holds the earlier snapshot of one speaker, which the restarted tracker loaded
C14_Witness ==
    /\ pureCall.fn = "restarted"
    /\ pureCall.pc = "writing"
    /\ tmpFile = Some(PartialFile)
    /\ pureCall.old # pureCall.data
    /\ storeFile = pureCall.old
    /\ storeFile.kind = "json"
    /\ tracker.speakerCount = 1
    /\ Len(pureCall.data.speakers) = 2

----------------------------------------------------------------------------
(* Properties of load() (checked on SpecSpeaker) *)

\* a confident identify: reliable audio, a valid embedding, no candidate found
ConfidentEnv == [QuietEnv EXCEPT !.ready = TRUE, !.embedding = EmbA]

\* C15: a tracker constructed on a store that cannot be loaded (no file,
\* unparseable JSON, or JSON on which load() raises part-way) is a fresh one: no
\* profiles, speakerCount 0, no lastSpeaker, and its first confident identify
\* returns Speaker_1.
C15_UnloadableStoreIsFresh ==
    (nCalls = 0 /\ storeFile.kind \in {"missing", "corrupt", "badShape"})
    => /\ tracker.embeddings = <<>>
       /\ tracker.embeddingCounts = <<>>
       /\ tracker.speakerCount = 0
       /\ IsNull(tracker.lastSpeaker)
       /\ identify(tracker, storeFile, SEGMENT_SAMPLE_RATE, ConfidentEnv).ret = "Speaker_1"

\* every store write of the calls made so far succeeded
WritesSucceeded == nCalls >= 1 /\ tracker.storagePath /\ lastIdentify.writesOk

\* a fresh tracker on the store has the speakerCount, names, centroids and
\* counts of tracker
SameProfiles(fresh) ==
    /\ fresh.speakerCount = tracker.speakerCount
    /\ fresh.embeddings = tracker.embeddings
    /\ fresh.embeddingCounts = tracker.embeddingCounts

\* C16: after identify and reset calls whose writes succeeded, a fresh tracker
\* constructed on the same path has the same speakerCount, names, centroids and
\* counts, and returns for any audio, reliable or short, the name the original
\* would return next, with the same speakerCount afterwards.
C16_RoundTrip ==
    WritesSucceeded
    => LET fresh == Restarted(storeFile)
       IN /\ SameProfiles(fresh)
          /\ \A audioLen \in AudioLens :
             \A e \in IdentifyEnvs(tracker, audioLen) :
                LET a == identify(tracker, storeFile, audioLen, e)
                    b == identify(fresh, storeFile, audioLen, e)
                IN /\ b.threw = a.threw
                   /\ b.ret = a.ret
                   /\ b.t.speakerCount = a.t.speakerCount

\* the collaborators give a valid embedding for reliable-length audio
Confident(audioLen, e) ==
    /\ audioLen >= MIN_RELIABLE_SPEAKER_SAMPLES
    /\ ~e.throws /\ e.ready /\ isValidEmbedding(e.embedding)

\* C17: reset() leaves the tracker with no profiles, no observation counts,
\* speakerCount 0, no lastSpeaker and an empty matcher, and, when the tracker has
\* a store path and the write succeeds, the store holds {speakerCount: 0,
\* speakers: []}; the next confident identify returns Speaker_1 and a short-audio
\* identify right after reset returns "Unknown".
C17_ResetClears ==
    [][/\ ResetStep
          => /\ tracker'.embeddings = <<>>
             /\ tracker'.embeddingCounts = <<>>
             /\ tracker'.speakerCount = 0
             /\ IsNull(tracker'.lastSpeaker)
             /\ tracker'.manager = <<>>
             /\ (tracker.storagePath /\ lastIdentify'.writeOk)
                => storeFile' = StoreJson(0, <<>>)
             /\ \A audioLen \in AudioLens :
                \A e \in IdentifyEnvs(tracker', audioLen) :
                   LET r == identify(tracker', storeFile', audioLen, e)
                   IN /\ Confident(audioLen, e) => r.ret = "Speaker_1"
                      /\ audioLen < MIN_RELIABLE_SPEAKER_SAMPLES => r.ret = "Unknown"
       /\ (IdentifyStep /\ lastIdentify.op = "reset")
          => /\ lastIdentify'.path \in {"new", "matched", "rejected"}
                => lastIdentify'.ret = "Speaker_1"
             /\ lastIdentify'.path = "short" => lastIdentify'.ret = "Unknown"]_vars

\* reset has just emptied a tracker that held a profile, and the store with it
C17_Witness ==
    /\ lastIdentify.op = "reset"
    /\ lastIdentify.prevPath \in {"new", "matched"}
    /\ tracker.storagePath /\ lastIdentify.writeOk
    /\ tracker.embeddings = <<>> /\ tracker.speakerCount = 0
    /\ storeFile = StoreJson(0, <<>>)

\* C19: identify never raises to its caller: whatever the extractor, the matcher
\* and the store write do, it returns "Unknown" or the name of a profile the
\* tracker then holds.
C19_IdentifyNeverRaises ==
    [][IdentifyStep
       => /\ ~lastIdentify'.threw
          /\ lastIdentify'.ret \in {"Unknown"} \cup mapKeys(tracker'.embeddings)]_vars

\* the record the handler writes for the event it has just handled
RecordOf(h, speaker) ==
    [ts |-> h.event.startTime,
     duration |-> roundDuration(h.event.durationMs),
     text |-> h.text,
     speaker |-> speaker]

\* C18: for every handled speech event with non-empty final text, the sink
\* accepting what it is given, identify is called once on the event's own audio
\* and exactly one record is appended after the records of the events handled
\* before: ts of the event's startTime, the duration rounded to 2 decimals, the
\* final text, and the name identify returned.
C18_OneRecordPerText ==
    [][(HandledStep /\ Len(lastHandled'.text) > 0 /\ ~lastHandled'.writeThrew)
       => /\ nCalls' = nCalls + 1
          /\ lastIdentify'.op = "handler"
          /\ lastIdentify'.audioLen = bufLen(lastHandled'.event.audio)
          /\ records' = Append(records, RecordOf(lastHandled', lastIdentify'.ret))]_vars

\* the overlap context holds nothing
OverlapStateEmpty ==
    /\ IsNull(previousSpeechTail) /\ IsNull(lastSpeechEndMs)
    /\ previousTranscript = <<>>

\* a call of start() got past its test of running
StartStep == nextGen' # nextGen

\* cleanup() ran: in a failed start, or in stop() on a running service
CleanupStep ==
    /\ IsNull(transcriber')
    /\ transcriber' # transcriber \/ nextGen' # nextGen \/ startPc' # startPc

\* the event just handled is the first one handled in its run
FirstOfRun(h) == h.event.id > 0 /\ h.prevRun # h.run

\* C20: a start() that gets past its test of running leaves no previous tail, no
\* last speech end and an empty previousTranscript, and so does cleanup; the
\* first event handled in a run finds that context empty, is transcribed from
\* its own audio alone, and its raw text is only trimmed.
C20_StartResetsOverlapState ==
    [][/\ StartStep => OverlapStateEmpty'
       /\ CleanupStep => OverlapStateEmpty'
       /\ (HandledStep /\ FirstOfRun(lastHandled'))
          => /\ OverlapStateEmpty
             /\ ~lastHandled'.usedOverlap
             /\ lastHandled'.audioForAsr = lastHandled'.event.audio
             /\ ~lastHandled'.asrThrew
                => lastHandled'.text = Trimmed(lastHandled'.rawText)]_vars

\* the first event of a second run comes at once after an event of the first
\* run that left a transcript, with the overlap configured, and uses none of it
C20_Witness ==
    /\ lastHandled.run = 2 /\ lastHandled.prevRun = 1
    /\ Len(lastHandled.prevText) > 0
    /\ asrOverlapSamples > 0
    /\ GapMs <= config.asrOverlapMaxGapMs
    /\ ~lastHandled.usedOverlap
    /\ lastHandled.audioForAsr = lastHandled.event.audio

\* the operations a step adds to componentOps
NewOps == {componentOps'[i] : i \in (Len(componentOps) + 1)..Len(componentOps')}

ConstructionKinds ==
    {"newSink", "newTranscriber", "newCapture", "newVad", "newSpeaker",
     "onSpeech", "onAudio", "captureStart"}

\* a stop() call is made
StopStep == lastCall'.op = "stop" /\ lastCall' # lastCall

\* while the service runs no step constructs a component or starts a capture,
\* and stop() on a service that is not running changes nothing
CallsAtOnce ==
    /\ running => \A o \in NewOps : o.kind \notin ConstructionKinds
    /\ running => nextGen' = nextGen
    /\ (StopStep /\ ~running) => UNCHANGED <<svcVars, componentOps, startPc>>

\* each of capture stop, VAD destroy and sink close is called at most once on
\* a component
TornDownAtMostOnce ==
    /\ \A g \in Built(componentOps, "newCapture") :
          Count(componentOps, "captureStop", g) <= 1
    /\ \A g \in Built(componentOps, "newVad") :
          Count(componentOps, "vadDestroy", g) <= 1
    /\ \A g \in Built(componentOps, "newSink") :
          Count(componentOps, "sinkClose", g) <= 1

\* C21 as stated: start() on a running service and stop() on a service that is
\* not running do nothing; with no start() in flight every constructed capture
\* has been started exactly once, and capture stop, VAD destroy and sink close
\* are called at most once per constructed component.
C21_StartedExactlyOnce ==
    /\ [][CallsAtOnce]_vars
    /\ [](/\ TornDownAtMostOnce
          /\ startPc = "idle"
             => \A g \in Built(componentOps, "newCapture") :
                   Count(componentOps, "captureStart", g) = 1)

\* C21 as the code has it: the same, but a capture is started exactly once only
\* if its start() got as far as starting it: the capture of a running service
\* has been started exactly once, every other constructed capture at most once
\* (a start() that fails before audioCapture.start() never starts its capture).
C21_StartedAtMostOnce ==
    /\ [][CallsAtOnce]_vars
    /\ [](/\ TornDownAtMostOnce
          /\ \A g \in Built(componentOps, "newCapture") :
                Count(componentOps, "captureStart", g) <= 1
          /\ running => Count(componentOps, "captureStart", audioCapture[1]) = 1)

\* a third start() runs the service after a start() whose capture was built and
\* never started, and after a capture that was started and stopped once
C21_Witness ==
    /\ running /\ nextGen = 3
    /\ \E g \in Built(componentOps, "newCapture") :
          Count(componentOps, "captureStart", g) = 0
    /\ \E g \in Built(componentOps, "newCapture") :
          /\ g # audioCapture[1]
          /\ Count(componentOps, "captureStart", g) = 1
          /\ Count(componentOps, "captureStop", g) = 1

\* a start() call ends without the service running
FailedStartStep ==
    /\ nextGen' # nextGen \/ startPc = "awaitInit"
    /\ startPc' = "idle" /\ ~running'

\* the steps of start() that can raise or reject
StartFailures == {"transcriber", "capture", "vad", "vadInit", "speaker", "captureStart"}

\* the service holds no component
NoComponents ==
    /\ IsNull(audioCapture) /\ IsNull(vad) /\ IsNull(transcriber)
    /\ IsNull(fileWriter) /\ IsNull(speakerIdentifier)

\* every component start() number g constructed has been torn down once
TornDown(log, g) ==
    /\ g \in Built(log, "newCapture") => Count(log, "captureStop", g) = 1
    /\ g \in Built(log, "newVad") => Count(log, "vadDestroy", g) = 1
    /\ g \in Built(log, "newSink") => Count(log, "sinkClose", g) = 1

\* C22: when a step of start() raises or rejects, every component that start()
\* had constructed is torn down (capture stopped, VAD destroyed if created, sink
\* closed), the service holds no component and is not running, the overlap
\* context is empty, and start() rejects with the error of the failing step; the
\* next start() constructs its own components and touches none of the old ones.
C22_FailedStartCleansUp ==
    [][/\ FailedStartStep
          => /\ TornDown(componentOps', nextGen')
             /\ NoComponents' /\ ~running' /\ OverlapStateEmpty'
             /\ lastCall'.op = "start" /\ lastCall'.outcome = "rejected"
             /\ lastCall'.error \in StartFailures
       /\ (StartStep /\ lastCall.outcome = "rejected")
          => /\ NoComponents /\ ~running /\ OverlapStateEmpty
             /\ \A o \in NewOps : o.gen = nextGen'
             /\ startPc' = "awaitInit"
                => /\ audioCapture' = Some(nextGen') /\ vad' = Some(nextGen')
                   /\ transcriber' = Some(nextGen') /\ fileWriter' = Some(nextGen')]_vars

\* the second start() was rejected because vad.init() rejected; its capture, VAD
\* and sink were torn down although a teardown step raised
C22_Witness ==
    /\ lastCall.op = "start" /\ lastCall.outcome = "rejected"
    /\ lastCall.error = "vadInit" /\ lastCall.threw # {}
    /\ nextGen = 2
    /\ Count(componentOps, "captureStop", 2) = 1
    /\ Count(componentOps, "vadDestroy", 2) = 1
    /\ Count(componentOps, "sinkClose", 2) = 1
    /\ NoComponents /\ ~running

\* stop() is called on a running service
RunningStopStep == running /\ lastCall'.op = "stop"

\* C23: stop() on a running service resolves, and calls capture stop, VAD
\* destroy and sink close, once each and in that order, on the components the
\* service held, whichever of the three raise or reject; afterwards the service
\* is not running and holds no component.
C23_StopTearsDownAll ==
    [][RunningStopStep
       => /\ lastCall'.outcome = "resolved"
          /\ componentOps' = componentOps
                \o << Op("captureStop", audioCapture[1]),
                      Op("vadDestroy", vad[1]),
                      Op("sinkClose", fileWriter[1]) >>
          /\ ~running' /\ NoComponents']_vars

\* stop() resolved on a running service whose capture stop and VAD destroy both
\* raised, and the sink was closed all the same
C23_Witness ==
    /\ lastCall.op = "stop" /\ lastCall.outcome = "resolved"
    /\ lastCall.threw = {"captureStop", "vadDestroy"}
    /\ Count(componentOps, "sinkClose", nextGen) = 1
    /\ Count(componentOps, "vadDestroy", nextGen) = 1
    /\ ~running /\ NoComponents

\* cleanup() has run and no start() has been called since
AfterCleanup ==
    /\ nextGen >= 1 /\ startPc = "idle" /\ ~running
    /\ lastCall.op = "stop" \/ lastCall.outcome = "rejected"

\* a capture emits an audio chunk; a VAD emits a speech event
AudioStep == lastAudio' # lastAudio
SpeechStep == nEvents' = nEvents + 1

\* C24: after cleanup (stop or failed start) and before a new start, an audio
\* chunk of an old capture is forwarded to no VAD, and a speech event of an old
\* VAD causes no transcription, no speaker identification, no sink write and no
\* change of the overlap context.
C24_LateEventsIgnored ==
    [][/\ (AfterCleanup /\ AudioStep) => ~lastAudio'.forwarded
       /\ (AfterCleanup /\ SpeechStep)
          => UNCHANGED <<previousSpeechTail, lastSpeechEndMs, previousTranscript,
                         records, lastHandled, trkVars>>]_vars

\* after stop() the old VAD emitted a first speech event and the old capture an
\* audio chunk, and neither was processed
C24_Witness ==
    /\ AfterCleanup /\ lastCall.op = "stop"
    /\ nEvents = 1 /\ lastHandled = NotHandled /\ records = <<>>
    /\ lastAudio.capture = 1 /\ ~lastAudio.forwarded /\ IsNull(lastAudio.vad)

RECURSIVE SeqSum(_)
SeqSum(q) == IF q = <<>> THEN 0 ELSE q[1] + SeqSum(Tail(q))

\* applyGainStage has been called
GainCalled == pureCall.fn = "applyGainStage"

\* the RMS of the buffer is below the gate: sumSq / max(1, n) < gate^2
RmsBelowGate(audio, gate) ==
    LET squares == [i \in 1..Len(audio) |-> audio[i] * audio[i]]
        n == IF Len(audio) = 0 THEN 1 ELSE Len(audio)
    IN SeqSum(squares) < gate * gate * n

PeakOf(audio) ==
    IF audio = <<>> THEN 0
    ELSE LET a == {AbsInt(audio[i]) : i \in 1..Len(audio)}
         IN CHOOSE m \in a : \A x \in a : x <= m

\* the returned buffer is a new one of the same length that holds only zeros
Silenced(c) ==
    /\ ~c.result.same
    /\ Len(c.result.out) = Len(c.audio)
    /\ \A i \in 1..Len(c.result.out) : c.result.out[i].num = 0

\* C25: a buffer whose RMS is below a configured noiseGateRms > 0 comes back as
\* a new all-zero buffer of the same length, whatever its peak, targetPeak and
\* maxGain are; with noiseGateRms = 0 the gate never fires: the buffer comes back
\* itself or scaled.
C25_NoiseGate ==
    GainCalled
    => LET c == pureCall
           gate == c.options.noiseGateRms
       IN /\ (gate > 0 /\ RmsBelowGate(c.audio, gate)) => Silenced(c)
          /\ gate = 0
             => \/ c.result.same
                \/ \E i \in 1..Len(c.result.out) : c.result.out[i].num # 0

\* the gate silences a buffer that is not silent and whose peak is below
\* minPeak, which without the gate would have come back itself
C25_Witness ==
    /\ GainCalled /\ pureCall.options.noiseGateRms > 0
    /\ Silenced(pureCall)
    /\ \E i \in 1..Len(pureCall.audio) : pureCall.audio[i] # 0
    /\ PeakOf(pureCall.audio) < pureCall.options.minPeak

\* the gate does not fire on this call
NotGated(c) ==
    ~(c.options.noiseGateRms > 0 /\ RmsBelowGate(c.audio, c.options.noiseGateRms))

\* min(maxGain, targetPeak / peak) <= minGainToApply, for peak > 0
GainTooSmall(peak, o) ==
    \/ o.maxGain <= o.minGainToApply
    \/ 100 * o.targetPeak <= o.minGainToApply * peak

\* x = value * min(maxGain, targetPeak / peak), clamped to [-1, 1]
IsScaled(x, value, peak, o) ==
    LET byMax == o.maxGain * peak <= 100 * o.targetPeak
        num == IF byMax THEN value * o.maxGain ELSE value * o.targetPeak
        den == IF byMax THEN 100 ELSE peak
    IN IF num > FullScale * den THEN x.num = FullScale * x.den
       ELSE IF num < -FullScale * den THEN x.num = -FullScale * x.den
       ELSE x.num * den = num * x.den

\* C26: when the gate does not fire, applyGainStage returns the input buffer
\* itself, unmodified, if peak < minPeak or min(maxGain, targetPeak / peak) <=
\* minGainToApply, in particular when the peak equals targetPeak; otherwise it
\* returns a new buffer of the same length whose every sample is input * gain
\* clamped to [-1, 1]; the input buffer is never modified.
C26_GainApplied ==
    GainCalled
    => LET c == pureCall
           peak == PeakOf(c.audio)
       IN /\ c.result.audio = c.audio
          /\ NotGated(c)
             => IF peak < c.options.minPeak \/ GainTooSmall(peak, c.options)
                THEN /\ c.result.same
                     /\ c.result.out = [i \in 1..Len(c.audio) |-> Frac(c.audio[i], 1)]
                ELSE /\ ~c.result.same
                     /\ Len(c.result.out) = Len(c.audio)
                     /\ \A i \in 1..Len(c.audio) :
                           IsScaled(c.result.out[i], c.audio[i], peak, c.options)
          /\ (NotGated(c) /\ peak = c.options.targetPeak) => c.result.same

\* a gain of exactly minGainToApply (1.2 for targetPeak 0.12 at peak 0.1, 1.05
\* for targetPeak 0.105 at peak 0.1) leaves the buffer as it is
C26_Witness ==
    /\ GainCalled /\ NotGated(pureCall)
    /\ PeakOf(pureCall.audio) >= pureCall.options.minPeak
    /\ 100 * pureCall.options.targetPeak
          = pureCall.options.minGainToApply * PeakOf(pureCall.audio)
    /\ pureCall.options.maxGain > pureCall.options.minGainToApply
    /\ pureCall.result.same

\* write() is called; close() is called
LogWriteStep == pureCall'.nWrites = pureCall.nWrites + 1
LogCloseStep == pureCall'.last.op = "close" /\ pureCall'.last # pureCall.last

\* the write appended its one line to the file of the UTC date, and nothing else
AppendedToday ==
    LET today == pureCall.clock \div TicksPerDay + 1
    IN /\ ~pureCall'.last.threw
       /\ pureCall'.files =
             [pureCall.files EXCEPT ![today] = Append(@, pureCall'.last.entry)]

VerifyLens == {7199, 7200, 14399, 14400} \cup AudioLens

\* the behaviours in which the coarse search of tracker t names a candidate
CandidateEnvs(t) ==
    {[QuietEnv EXCEPT !.ready = TRUE, !.embedding = EmbA, !.found = name,
                      !.strictMatch = m] :
        name \in mapKeys(t.manager), m \in BOOLEAN}

\* audioLen / sampleRate >= 0.9; audioLen / sampleRate >= 0.45
LongSegment(t, audioLen) == 10 * audioLen >= 9 * t.sampleRate
AmbiguousSegment(t, audioLen) == 100 * audioLen >= 45 * t.sampleRate

\* the condition of C28 for strict verification of candidate name
VerifyExpected(t, name, audioLen) ==
    /\ name # ""
    /\ t.managerVerify
    /\ \/ LongSegment(t, audioLen)
       \/ /\ Len(t.embeddings) >= 2
          /\ t.lastSpeaker # Some(name)
          /\ AmbiguousSegment(t, audioLen)

\* C28: identify runs strict verification exactly when the coarse search named
\* a candidate, the matcher offers verify, and the segment lasts at least 0.9 s
\* or at least two profiles are known, the candidate is not lastSpeaker and the
\* segment lasts at least 0.45 s. A shorter-than-0.9 s segment whose candidate is
\* lastSpeaker is accepted without verification, and with fewer than two
\* profiles a segment shorter than 0.9 s is never verified.
C28_StrictVerifyWhen ==
    /\ [](\A audioLen \in VerifyLens : \A e \in CandidateEnvs(tracker) :
            LET r == identify(tracker, storeFile, audioLen, e)
            IN audioLen >= MIN_RELIABLE_SPEAKER_SAMPLES
               => /\ ~IsNull(r.verify) <=> VerifyExpected(tracker, e.found, audioLen)
                  /\ ~IsNull(r.verify) => r.verify[1].name = e.found
                  /\ (~LongSegment(tracker, audioLen) /\ tracker.lastSpeaker = Some(e.found))
                     => IsNull(r.verify) /\ r.path = "matched" /\ r.ret = e.found
                  /\ (~LongSegment(tracker, audioLen) /\ Len(tracker.embeddings) < 2)
                     => IsNull(r.verify))
    /\ [][(IdentifyStep /\ lastIdentify'.path \in {"new", "matched", "rejected"})
          => (~IsNull(lastIdentify'.verify)
                <=> VerifyExpected(tracker, lastIdentify'.found, lastIdentify'.audioLen))]_vars

\* a half-second segment was verified and rejected: two profiles were known and
\* the candidate was not the last speaker
C28_Witness ==
    /\ lastIdentify.op = "identify" /\ lastIdentify.path = "rejected"
    /\ lastIdentify.audioLen = 8000
    /\ ~IsNull(lastIdentify.verify)
    /\ lastIdentify.verify[1].name = lastIdentify.found

\* the step is an identify call that accepted the candidate the search named
MatchStep == IdentifyStep /\ lastIdentify'.path = "matched"

\* X's stored count, 1 when the profile carries none
StoredCount(t, name) ==
    IF mapHas(t.embeddingCounts, name) THEN mapGet(t.embeddingCounts, name) ELSE 1

\* (p*w + e)/(w + 1) with w = min(max(c, 1), 20)
RunningAverage(p, e, c) ==
    LET w == Min(Max(c, 1), 20)
    IN [i \in 1..Len(p) |-> (p[i] * w + e[i]) \div (w + 1)]

\* the profiles other than name, and speakerCount, are as before the step
OthersUnchanged(name) ==
    /\ tracker'.speakerCount = tracker.speakerCount
    /\ mapKeys(tracker'.embeddings) = mapKeys(tracker.embeddings)
    /\ \A other \in mapKeys(tracker.embeddings) \ {name} :
          /\ mapGet(tracker'.embeddings, other) = mapGet(tracker.embeddings, other)
          /\ StoredCount(tracker', other) = StoredCount(tracker, other)
          /\ mapGet(tracker'.manager, other) = mapGet(tracker.manager, other)

\* the store file holds the tracker's profiles whenever the write works
PersistedAfter ==
    (tracker.storagePath /\ lastIdentify'.writeOk) => storeFile' = Snapshot(tracker')

\* name's centroid, count and matcher vector after the step are v and n
ProfileReplaced(name, v, n) ==
    /\ mapGet(tracker'.embeddings, name) = v
    /\ StoredCount(tracker', name) = n
    /\ mapGet(tracker'.manager, name) = v

\* C29 as stated: on a confirmed match for X with stored centroid p and count c,
\* identify replaces X's centroid by (p*w + e)/(w + 1), w = min(max(c, 1), 20),
\* sets the count to c + 1, updates the matcher's vector, sets lastSpeaker = X,
\* persists and returns X, leaving speakerCount and the other profiles unchanged.
C29_MatchBlends ==
    [][MatchStep
       => LET X == lastIdentify'.found
              p == mapGet(tracker.embeddings, X)
              c == StoredCount(tracker, X)
          IN /\ mapHas(tracker.embeddings, X)
             /\ ProfileReplaced(X, RunningAverage(p, lastIdentify'.embedding, c), c + 1)
             /\ tracker'.lastSpeaker = Some(X)
             /\ PersistedAfter
             /\ lastIdentify'.ret = X
             /\ OthersUnchanged(X)]_vars

\* C29: on a confirmed match for X, identify sets lastSpeaker = X, returns X and
\* leaves speakerCount and every other profile unchanged. When the running
\* average b = (p*w + e)/(w + 1), w = min(max(c, 1), 20), is a valid embedding,
\* X's centroid becomes b, the count c + 1, the store is persisted, and the
\* matcher's vector becomes b if the matcher offers remove and stays otherwise.
\* When b is not valid, the profile, the matcher and the store stay as they are.
C29_MatchBlendsValid ==
    [][MatchStep
       => LET X == lastIdentify'.found
              p == mapGet(tracker.embeddings, X)
              c == StoredCount(tracker, X)
              b == RunningAverage(p, lastIdentify'.embedding, c)
          IN /\ mapHas(tracker.embeddings, X)
             /\ tracker'.lastSpeaker = Some(X)
             /\ lastIdentify'.ret = X
             /\ OthersUnchanged(X)
             /\ IF isValidEmbedding(b)
                THEN /\ mapGet(tracker'.embeddings, X) = b
                     /\ StoredCount(tracker', X) = c + 1
                     /\ mapGet(tracker'.manager, X)
                           = IF tracker.managerRemove THEN b ELSE mapGet(tracker.manager, X)
                     /\ PersistedAfter
                ELSE /\ tracker'.embeddings = tracker.embeddings
                     /\ tracker'.embeddingCounts = tracker.embeddingCounts
                     /\ tracker'.manager = tracker.manager
                     /\ storeFile' = storeFile]_vars

\* a second match in a row on a profile loaded with count 20: the count is 22,
\* the store holds the blended centroid and the matcher has it too
C29_Witness ==
    /\ lastIdentify.op = "identify" /\ lastIdentify.path = "matched"
    /\ lastIdentify.prevPath = "matched"
    /\ lastIdentify.found = "Speaker_1"
    /\ StoredCount(tracker, "Speaker_1") = 22
    /\ mapGet(tracker.manager, "Speaker_1") = mapGet(tracker.embeddings, "Speaker_1")
    /\ mapGet(tracker.embeddings, "Speaker_1") # EmbA
    /\ tracker.storagePath /\ storeFile = Snapshot(tracker)

\* the counts of the entries of a store file
StoreCounts(store) ==
    IF store.kind = "json"
    THEN {OrElse(store.speakers[i].count, 1) : i \in 1..Len(store.speakers)}
    ELSE {}

\* C30: the observation count of a profile, as held in memory and as written to
\* the persisted store, never exceeds MAX_EMBEDDING_COUNT_FOR_AVG (20), however
\* many matches were confirmed.
C30_CountCapped ==
    /\ \A i \in 1..Len(tracker.embeddingCounts) :
          tracker.embeddingCounts[i].v <= MAX_EMBEDDING_COUNT_FOR_AVG
    /\ \A n \in StoreCounts(storeFile) : n <= MAX_EMBEDDING_COUNT_FOR_AVG

ThresholdCalled == pureCall.fn = "getStrictThreshold"

\* base + offset, not below the floor, not above 0.95
Banded(base, offset, floor) ==
    LET raised == IF base + offset >= floor THEN base + offset ELSE floor
    IN IF raised <= 95 THEN raised ELSE 95

\* C31: the strict threshold is base + 0.14 floored at 0.5 from 1.2 s on,
\* base + 0.10 floored at 0.42 from 0.6 s on and base + 0.06 floored at 0.36
\* below, each capped at 0.95; for every base threshold it does not decrease as
\* the duration grows, and it never exceeds 0.95.
C31_StrictThresholdMonotone ==
    ThresholdCalled
    => LET c == pureCall
       IN /\ c.result = IF c.durationCs >= 120 THEN Banded(c.baseThreshold, 14, 50)
                        ELSE IF c.durationCs >= 60 THEN Banded(c.baseThreshold, 10, 42)
                        ELSE Banded(c.baseThreshold, 6, 36)
          /\ c.result <= 95
          /\ \A d \in DurationsCs :
                d >= c.durationCs => getStrictThreshold(c.baseThreshold, d) >= c.result

\* a base threshold of 0.9 on a 0.6 s segment: the offset would give 1.0, the
\* result is the ceiling, and a longer segment gets the same
C31_Witness ==
    /\ ThresholdCalled
    /\ pureCall.baseThreshold = 90 /\ pureCall.durationCs = 60
    /\ pureCall.result = 95
    /\ getStrictThreshold(90, 120) = 95
    /\ getStrictThreshold(90, 59) = 95

\* C39: the strict threshold is never lower than the base threshold, for every
\* base threshold >= 0 and every duration.
C39_StrictNotBelowBase ==
    ThresholdCalled => pureCall.result >= pureCall.baseThreshold

Loaded == pureCall.fn = "load"

\* the stored entries with a valid embedding, in the file's order
ValidEntries(store) ==
    SelectSeq(store.speakers,
              LAMBDA x : /\ \A i \in 1..Len(x.embedding) : x.embedding[i] # NaN
                         /\ sumSq(x.embedding) > 1)

\* the count a stored entry is loaded with
LoadedCount(entry) ==
    IF entry.count = <<>> \/ entry.count[1] < 1 THEN 1 ELSE entry.count[1]

\* C32: after construction on a store that parses, the profiles are exactly the
\* stored entries with a valid embedding (an invalid entry is skipped, the others
\* are kept), speakerCount is the stored speakerCount, every loaded count is at
\* least 1, and lastSpeaker is Speaker_<speakerCount> if a profile of that name
\* was loaded and absent otherwise.
C32_LoadKeepsValidEntries ==
    Loaded
    => LET kept == ValidEntries(storeFile)
           latest == SpeakerName(storeFile.speakerCount)
       IN /\ tracker.embeddings
                = [i \in 1..Len(kept) |-> [k |-> kept[i].name, v |-> kept[i].embedding]]
          /\ tracker.embeddingCounts
                = [i \in 1..Len(kept) |-> [k |-> kept[i].name, v |-> LoadedCount(kept[i])]]
          /\ \A i \in 1..Len(tracker.embeddingCounts) : tracker.embeddingCounts[i].v >= 1
          /\ tracker.speakerCount = storeFile.speakerCount
          /\ tracker.lastSpeaker
                = IF \E i \in 1..Len(kept) : kept[i].name = latest
                  THEN <<latest>> ELSE <<>>

\* a store of three entries whose first has a non-finite component and whose
\* third has count 0: the other two were loaded, the third with count 1 and as
\* lastSpeaker
C32_Witness ==
    /\ Loaded
    /\ Len(storeFile.speakers) = 3
    /\ storeFile.speakers[1].embedding = EmbNaN
    /\ storeFile.speakers[3].count = Some(0)
    /\ storeFile.speakerCount = 3
    /\ mapKeys(tracker.embeddings) = {"Speaker_2", "Speaker_3"}
    /\ mapGet(tracker.embeddingCounts, "Speaker_3") = 1
    /\ tracker.lastSpeaker = Some("Speaker_3")

\* the components constructed so far have all been torn down, and no capture
\* that was started is still to be stopped
AllTornDown(log) ==
    /\ \A g \in Built(log, "newCapture") : Count(log, "captureStop", g) >= 1
    /\ \A g \in Built(log, "newVad") : Count(log, "vadDestroy", g) >= 1
    /\ \A g \in Built(log, "newSink") : Count(log, "sinkClose", g) >= 1

\* C33: whenever a stop() call resolves the service is not running, capture
\* stop, VAD destroy and sink close have been made on every component
\* constructed so far, and no capture is left active, also when stop() is
\* called while a start() is suspended at its await of vad.init().
C33_StopAwaitsTeardown ==
    [][StopStep => (~running' /\ NoComponents' /\ AllTornDown(componentOps'))]_vars

\* the components of that kind that were constructed and not torn down
Live(log, built, tornDown) ==
    {g \in Built(log, built) : Count(log, tornDown, g) = 0}

\* a stop() has resolved and no call is suspended
FinalStop ==
    /\ lastCall.op = "stop" /\ lastCall.outcome = "resolved"
    /\ suspended = {}
    /\ ~running

\* at most one capture, one VAD and one sink are live
OneLiveSet ==
    /\ Cardinality(Live(componentOps, "newCapture", "captureStop")) <= 1
    /\ Cardinality(Live(componentOps, "newVad", "vadDestroy")) <= 1
    /\ Cardinality(Live(componentOps, "newSink", "sinkClose")) <= 1

\* C35: however start() and stop() calls overlap (a start() before an earlier
\* one has finished, a start() while a cleanup awaits the VAD's destroy), at most
\* one capture, one VAD and one sink are live at any time, and when a final
\* stop() has resolved every component ever constructed has been torn down.
C35_OverlapLeaksNothing ==
    /\ OneLiveSet
    /\ FinalStop => AllTornDown(componentOps)

\* C34: whenever the overlap is applied to a segment (its ASR input starts with
\* the tail of the segment handled before it), the transcript its text is
\* deduplicated against is the final text of that previous segment: nothing when
\* the previous segment gave empty text or its transcription failed, never the
\* text of an earlier segment.
C34_DedupeAgainstPreviousSegment ==
    [][(HandledStep /\ lastHandled'.usedOverlap)
       => /\ lastHandled.event.id > 0
          /\ previousTranscript = lastHandled.text]_vars

\* every token of raw is, normalized, a token with letters or digits, and the
\* tokens of raw are the last tokens of previous
WholeTextRepeats(previous, raw) ==
    LET prevTokens == tokenize(previous)
        currTokens == tokenize(raw)
        n == Len(currTokens)
    IN /\ n >= 1 /\ n <= Len(prevTokens) /\ n <= MAX_OVERLAP_TOKENS
       /\ \A i \in 1..n :
             /\ normalizeToken(currTokens[i]) # <<>>
             /\ normalizeToken(currTokens[i])
                  = normalizeToken(prevTokens[Len(prevTokens) - n + i])

C36_MatcherMirrorsProfiles ==
    /\ mapKeys(tracker.manager) = mapKeys(tracker.embeddings)
    /\ \A name \in mapKeys(tracker.embeddings) \cap mapKeys(tracker.manager) :
          mapGet(tracker.manager, name) = mapGet(tracker.embeddings, name)

\* the step is an identify call that created a profile
CreateStep == IdentifyStep /\ lastIdentify'.path \in {"new", "rejected"}

\* C37: the name createNewSpeaker chooses is not a key of the profile map, so
\* every creation adds exactly one profile, whatever store the tracker was
\* loaded from.
C37_CreateNeverOverwrites ==
    [][CreateStep
       => /\ lastIdentify'.ret \notin mapKeys(tracker.embeddings)
          /\ Len(tracker'.embeddings) = Len(tracker.embeddings) + 1]_vars

\* C38: lastSpeaker is absent or the name of a profile in the profile map, and
\* what the last identify call returned is "Unknown" or the name of a profile
\* that was in the map when it returned.
C38_LastSpeakerIsProfile ==
    /\ [](IsNull(tracker.lastSpeaker) \/ mapHas(tracker.embeddings, tracker.lastSpeaker[1]))
    /\ [][(IdentifyStep /\ ~lastIdentify'.threw)
          => \/ lastIdentify'.ret = "Unknown"
             \/ mapHas(tracker'.embeddings, lastIdentify'.ret)]_vars

\* a short segment after a match is attributed to the matched profile, which is
\* lastSpeaker and in the map
C38_Witness ==
    /\ lastIdentify.op = "identify" /\ lastIdentify.path = "short"
    /\ lastIdentify.prevPath = "matched"
    /\ lastIdentify.ret # "Unknown"
    /\ tracker.lastSpeaker = Some(lastIdentify.ret)
    /\ mapHas(tracker.embeddings, lastIdentify.ret)

====
